---- MODULE Spec2Model ----
(***************************************************************************)
(* Model of the p44utils scripting engine (scripting.cpp, expressions.cpp).*)
(*                                                                         *)
(* The engine is single threaded; "concurrency" is re-entrancy: a handler  *)
(* calls a callback, and the callback calls back into the engine.  The     *)
(* model therefore keeps an explicit call stack.  Every frame is one       *)
(* activation of a C++ function, its pc the place the activation continues *)
(* at when the call it made returns.  The action of a frame runs the code  *)
(* from that place to the next call or to the function's return.           *)
(***************************************************************************)
EXTENDS Integers, Sequences, FiniteSets, TLC

\* ---------------------------------------------------------------- bounds
\* number of evaluate() requests the host issues in one behaviour
MaxThreads == 2
\* number of evaluations the host may request on top of these by
\* evaluateSynchronously()
MaxSync == 1
\* last value of the clock (MainLoop::now())
MaxTime == 2
\* number of host callbacks on the call stack inside which the host still
\* calls back into the engine
MaxNest == 1
\* expression evaluation contexts, and the depth to which the host nests
\* calls of triggerEvaluation()
MaxCtx == 2
MaxCalls == 3
\* lookups registered with the main context
MaxLookups == 2
\* ticks of the main loop's clock while the timed context is used
MaxClock == 4
\* arguments in the source of a function call
MaxArgs == 3
MaxOperands == 3
MaxText == 5
MaxStatements == 2

\* ------------------------------------------------------ program constants
Infinite == -1
Never == 0

ThreadIds == 1..(MaxThreads + MaxSync)
Ctxs == 1..MaxCtx

\* EvaluationFlags (bits of the flag word, as a set of their names)
stopall == {"stoprunning", "queue"}

\* flag words the host passes to evaluate()
EvalFlagChoices ==
  { {}, {"stoprunning"}, {"queue"}, {"concurrently"}, {"synchronously"},
    {"concurrently", "synchronously"} }

\* flag words the host passes to abort()
AbortFlagChoices == { {"stoprunning"}, {"queue"}, stopall }

\* the timing parameters evaluate() prepares every thread with: it passes
\* none, so they are the defaults of prepare()'s declaration
BlockTimeChoices == {0, Infinite}
RunTimeChoices == {Infinite, 1}

\* ---------------------------------------------------------------- values
\* ScriptObjPtr values.  "NULL" is the null pointer; E_* are ErrorValue
\* objects, named after what creates them.
ErrorValues ==
  { "E_AbortedScript", "E_Timeout", "E_SyncTimeout", "E_Busy",
    "E_AbortedByStart", "E_QueueRemoved", "E_Host", "E_AsyncNotAllowed",
    "E_BuiltinAborted", "E_Internal" }

\* result->hasType(error)
IsError(v) == v \in ErrorValues

\* the ScriptError code of an error value
ErrorCode(v) ==
  CASE v \in {"E_AbortedScript", "E_AbortedByStart", "E_QueueRemoved", "E_BuiltinAborted"} -> "Aborted"
    [] v \in {"E_Timeout", "E_SyncTimeout"} -> "Timeout"
    [] v = "E_Busy" -> "Busy"
    [] v = "E_AsyncNotAllowed" -> "AsyncNotAllowed"
    [] v = "E_Internal" -> "Internal"
    [] v = "E_Host" -> "User"
    [] OTHER -> "OK"

\* built-in functions a script calls: one that finishes within its
\* implementation, and delay(), which is flagged async ("none": no function)
BuiltinFuncs == {"sync", "delay"}

\* descriptor->returnTypeInfo & async
IsAsync(f) == f = "delay"

VARIABLES
  threads,        \* ScriptCodeContext::threads, the running threads
  queuedThreads,  \* ScriptCodeContext::queuedThreads
  th,             \* the ScriptCodeThread objects, by id
  child,          \* the BuiltinFunctionContext a thread calls into, by thread id
  stack,          \* the C++ call stack, innermost activation last
  now,            \* MainLoop::now()
  crashed,        \* the process has run into undefined behaviour and died
  nextId,         \* id of the next thread evaluate() creates
  delivered,      \* per evaluation, the values its callback has received
  timing,         \* <<aMaxBlockTime, aMaxRunTime>>, the defaults of prepare()
  nested          \* per thread: a nested resume() has returned early since the
                  \* thread's last step() began (history, for the properties)

\* the state of the script threads of one ScriptCodeContext
threadVars == <<threads, queuedThreads, th, child, stack, now, crashed, nextId, delivered,
                timing, nested>>

VARIABLES
  evaluating,     \* EvaluationContext::evaluating, by context
  evalMode,       \* EvaluationContext::evalMode, by context
  handlers,       \* by context: an evaluationResultHandler is set
  calls,          \* the call stack of the expression evaluations, innermost last
  returned        \* <<context, error>> the last triggerEvaluation() has returned

\* the state of the expression evaluation contexts
triggerVars == <<evaluating, evalMode, handlers, calls, returned>>

VARIABLES
  namedVars,      \* ScriptCodeContext::namedVars of a function's context
  mainVars,       \* namedVars of its main context, a ScriptMainContext
  globalVars,     \* namedVars of the scripting domain
  thisVars,       \* the members of thisObj() of the main context
  lookups,        \* ScriptMainContext::lookups of the main context
  asked,          \* the last memberByName(): <<context, name, type requirements>>
  found,          \* and the object it has returned
  setRes          \* the last setMemberByName() of the function's context:
                  \* <<member passed, error returned>>

\* the state of the name lookup
lookupVars == <<namedVars, mainVars, globalVars, thisVars, lookups, asked, found, setRes>>

VARIABLES
  expression,         \* EvaluationContext::expression of a TimedEvaluationContext
  frozenResults,      \* TimedEvaluationContext::frozenResults, by position
  nextEvaluation,     \* EvaluationContext::nextEvaluation
  reEvaluationTicket, \* MLTicket::ticketNo of reEvaluationTicket, 0: no ticket
  timers,             \* MainLoop::timers
  mlNow,              \* MainLoop::now() for the timed context
  timedMode,          \* EvaluationContext::evalMode of the timed context
  inEvaluateNow,      \* evaluateNow() of the timed context is active
  schedReEval,        \* its aScheduleReEval
  evaluated,          \* the positions of the expression evaluated so far in it
  requested,          \* the times passed to updateNextEval() by functions in it
  sweptOut,           \* positions whose entry the sweep of evaluateNow() erased
                      \* and that got no new entry since
  lastCall            \* the last operation on the timed context and its outcome

\* the state of the timed evaluation context
timedVars == <<expression, frozenResults, nextEvaluation, reEvaluationTicket, timers,
               mlNow, timedMode, inEvaluateNow, schedReEval, evaluated, requested,
               sweptOut, lastCall>>

VARIABLES
  fcall,      \* EvaluationContext::evaluateTerm evaluating a function call
  argCheck,   \* the last ExecutionContext::checkAndSetArgument and its outcome
  cmp         \* the last comparison of two values with == and its result

VARIABLES
  binop,      \* the last binary operator applied to two values and its result
  evalx,      \* the last expression evaluated and its result
  cursor,     \* the last text given to CodeCursor::skipNonCode and the cursor after it
  script      \* a ScriptExecutionContext: its code, stack, variables and result

VARIABLES
  scriptSource, \* a ScriptSource: its source, compiler context and cached executable
  members,      \* an ExecutionContext: its indexedVars and the last access to them
  builtin       \* a BuiltinFunctionContext and the call of a standard function in it

\* objects of the script engine that are used on their own
objVars == <<scriptSource, members, builtin>>

\* operators, expressions and source text
langVars == <<binop, evalx, cursor, script, objVars>>

\* function calls, argument checks and comparisons of values
valueVars == <<fcall, argCheck, cmp, langVars>>

vars == <<threadVars, triggerVars, lookupVars, timedVars, valueVars>>

\* what the operations of the timed context leave alone
baseVars == <<threadVars, triggerVars, lookupVars, valueVars>>

\* what the operations on values leave alone
contextVars == <<threadVars, triggerVars, lookupVars, timedVars, langVars>>

\* what the operators, the evaluation of expressions and the cursor leave alone
nonLangVars == <<threadVars, triggerVars, lookupVars, timedVars, fcall, argCheck, cmp>>

\* what the operations of the script threads leave alone
otherVars == <<triggerVars, lookupVars, timedVars, valueVars>>

\* ---------------------------------------------------------- constructors
\* ScriptCodeThread::ScriptCodeThread
NewThread ==
  [ result |-> "NULL", aborted |-> FALSE, resuming |-> FALSE,
    resumed |-> FALSE, terminationCB |-> FALSE, evaluationFlags |-> {},
    maxBlockTime |-> 0, maxRunTime |-> Infinite, runningSince |-> Never,
    childContext |-> FALSE, autoResumeTicket |-> FALSE, syncExecDone |-> FALSE,
    notified |-> 0 ]

\* BuiltinFunctionContext
NewChild ==
  [ func |-> "none", abortCB |-> FALSE, evaluationCB |-> FALSE ]

\* the flags a thread reads after it has been prepared
ThreadFlags == {"synchronously"}

\* ScriptCodeThread::prepare (of the flag word, the thread keeps the bits it reads)
prepare(thr, aEvalFlags, aMaxBlockTime, aMaxRunTime) ==
  [ thr EXCEPT !.terminationCB = TRUE, !.evaluationFlags = aEvalFlags \cap ThreadFlags,
               !.maxBlockTime = aMaxBlockTime, !.maxRunTime = aMaxRunTime ]

\* ------------------------------------------------------------ call stack
\* arg and flags are the call's arguments, loc a local variable of the
\* activation.  For the properties: note is the branch the activation has
\* taken, ids the threads that were running when abort() was entered, queued
\* the threads that were queued then.
Frame(p, t, a, f) ==
  [ proc |-> p, pc |-> "entry", t |-> t, arg |-> a, flags |-> f, loc |-> 0,
    note |-> "", ids |-> {}, queued |-> {} ]

Top == stack[Len(stack)]

InSeq(s, x) == \E i \in 1..Len(s) : s[i] = x

\* A thread object is held by smart pointers: the context's lists, the
\* activations working on it, and the callbacks bound into armed tickets.
Referenced(t) ==
  \/ InSeq(threads, t)
  \/ InSeq(queuedThreads, t)
  \/ \E i \in 1..Len(stack) : stack[i].t = t
  \/ th[t].autoResumeTicket

\* thread objects the last pointer to which is gone: they are destroyed
Unreferenced == { t \in ThreadIds : ~Referenced(t) /\ <<th[t], child[t]>> # <<NewThread, NewChild>> }

\* the engine runs (the destructors of unreferenced objects have run)
Running == ~crashed /\ Unreferenced = {}

\* the top activation is function p at place l
At(p, l) == ~crashed /\ stack # <<>> /\ Top.proc = p /\ Top.pc = l /\ Running

RECURSIVE Unwind(_)
\* drop the activations that have nothing left to do but return
Unwind(s) ==
  IF s # <<>> /\ s[Len(s)].pc = "ret" THEN Unwind(SubSeq(s, 1, Len(s) - 1)) ELSE s

\* the top activation calls f and continues at l when f returns
Call(l, f) == stack' = Append([stack EXCEPT ![Len(stack)].pc = l], f)
\* the same, recording the branch taken
CallNote(l, n, f) ==
  stack' = Append([stack EXCEPT ![Len(stack)].pc = l, ![Len(stack)].note = n], f)
Goto(l) == stack' = [stack EXCEPT ![Len(stack)].pc = l]
Return == stack' = Unwind(SubSeq(stack, 1, Len(stack) - 1))

\* number of activations of function p for thread t on the stack
Active(p, t) == Cardinality({ i \in 1..Len(stack) : stack[i].proc = p /\ stack[i].t = t })

\* the host is running: in its event loop, or in a callback the engine called
HostNest == Cardinality({ i \in 1..Len(stack) : stack[i].proc = "hostCB" })
HostRuns ==
  /\ \/ stack = <<>>
     \/ stack # <<>> /\ Top.proc = "hostCB" /\ HostNest <= MaxNest
  /\ Running
HostCall(f) == stack' = Append(stack, f)

Back(s) == s[Len(s)]
PopBack(s) == SubSeq(s, 1, Len(s) - 1)
RemoveAll(s, x) == SelectSeq(s, LAMBDA y : y # x)

\* --------------------------------------------------------- initial states
\* a ScriptCodeContext after construction; the defaults of prepare() are one
\* of the choices
ThreadsInit ==
  /\ threads = <<>>
  /\ queuedThreads = <<>>
  /\ th = [ t \in ThreadIds |-> NewThread ]
  /\ child = [ t \in ThreadIds |-> NewChild ]
  /\ stack = <<>>
  /\ now = 1
  /\ crashed = FALSE
  /\ nextId = 1
  /\ delivered = [ t \in ThreadIds |-> <<>> ]
  /\ timing \in BlockTimeChoices \X RunTimeChoices
  /\ nested = [ t \in ThreadIds |-> FALSE ]

\* EvaluationContext::EvaluationContext, for each context; no result handler
\* is set and no evaluation has been triggered
TriggerInit ==
  /\ evaluating = [ c \in Ctxs |-> FALSE ]
  /\ evalMode = [ c \in Ctxs |-> "initial" ]
  /\ handlers = [ c \in Ctxs |-> FALSE ]
  /\ calls = <<>>
  /\ returned = <<0, "none">>

\* names, and the TypeInfo of the objects stored under them (the bits that
\* are set, as a set of their names)
Names == {"x", "f"}
TypeChoices == { {"numeric"}, {"executable", "constant"} }

\* the null ScriptObjPtr, and an object that remembers where it is stored
NoObj == [ origin |-> "none", types |-> {} ]
Obj(o, ty) == [ origin |-> o, types |-> ty ]
NoVars == [ n \in Names |-> NoObj ]

\* contexts without variables, a main context without registered lookups and
\* without an object it executes
LookupInit ==
  /\ namedVars = NoVars
  /\ mainVars = NoVars
  /\ globalVars = NoVars
  /\ thisVars = NoVars
  /\ lookups = <<>>
  /\ asked = <<"none", "x", {}>>
  /\ found = NoObj
  /\ setRes = <<NoObj, "none">>

\* seconds of a day, as struct tm counts them (scaled down)
Day == 4
\* IS_TIME_TOLERANCE_SECONDS (scaled down)
IsTimeTolerance == 2
\* MIN_RETRIGGER_SECONDS (scaled down)
MinRetrigger == 2
\* the expressions of the timed context: the function called at each position
\* (the second one calls none)
Exprs == << <<"testlater", "is_time">>, <<"none", "none">> >>
Positions == {1, 2}
\* the evaluation modes evaluateNow() is called with
TimedModes == {"current", "initial", "externaltrigger", "timed", "noexec"}
\* no entry of frozenResults
NoFreeze == [exists |-> FALSE, frozenResult |-> 0, frozenUntil |-> Never]
\* a FrozenResult
FrozenResult(v, until) == [exists |-> TRUE, frozenResult |-> v, frozenUntil |-> until]
\* the argument of is_time() in the expressions
IsTimeArg == 1
\* the seconds testlater() is called with
SecsChoices == {1, 2}
\* an operation on the timed context and its outcome
TimedCall(op, pos, arg, hit, seen, ret) ==
  [op |-> op, pos |-> pos, arg |-> arg, hit |-> hit, seen |-> seen, ret |-> ret]
\* no operation on the timed context yet
NoCall == [op |-> "none", pos |-> 0, arg |-> 0, hit |-> FALSE, seen |-> 0, ret |-> 0]

\* TimedEvaluationContext::TimedEvaluationContext, at the time of day is_time()
\* of the expressions tests for
TimedInit ==
  /\ expression = Exprs[1]
  /\ frozenResults = [p \in Positions |-> NoFreeze]
  /\ nextEvaluation = Never
  /\ reEvaluationTicket = 0
  /\ timers = {}
  /\ mlNow = Day + IsTimeArg
  /\ timedMode = "initial"
  /\ inEvaluateNow = FALSE
  /\ schedReEval = FALSE
  /\ evaluated = {}
  /\ requested = {}
  /\ sweptOut = {}
  /\ lastCall = NoCall

\* values: an ExpressionValue or ScriptObj is a number, a string or an error
\* of a domain with a code
Num(n) == [kind |-> "numeric", num |-> n, str |-> "", domain |-> "", code |-> "OK"]
Str(t) == [kind |-> "string", num |-> 0, str |-> t, domain |-> "", code |-> "OK"]
Err(d, c) == [kind |-> "error", num |-> 0, str |-> "", domain |-> d, code |-> c]
\* ExpressionError::Null, the value of null and undefined
Null == Err("ExpressionError", "Null")
\* ScriptObjPtr(): the pointer that points to no object
NullPtr == [kind |-> "nullptr", num |-> 0, str |-> "", domain |-> "", code |-> "OK"]
\* new ScriptObj(): an object of the base class, which has no value
ScriptObj == [kind |-> "null", num |-> 0, str |-> "", domain |-> "", code |-> "OK"]

\* no function call evaluated, no argument checked, nothing compared
ValuesInit ==
  /\ fcall = [pc |-> "idle", numArgs |-> 0, evals |-> <<>>, args |-> <<>>,
              noexec |-> FALSE, invoked |-> FALSE, res |-> Null]
  /\ argCheck = [descriptor |-> <<>>, aIndex |-> 0, aArgument |-> {}, res |-> "none",
                 stored |-> FALSE]
  /\ cmp = [impl |-> "none", a |-> Null, b |-> Null, eq |-> "none"]
  /\ binop = [impl |-> "none", op |-> "none", a |-> Null, b |-> Null, same |-> FALSE,
              noexec |-> FALSE, res |-> Null]
  /\ evalx = [aExpr |-> <<>>, noexec |-> FALSE, res |-> Null]
  /\ cursor = [text |-> <<>>, pos |-> 0]
  /\ script = [state |-> "idle", code |-> <<>>, stack |-> <<>>, variables |-> Null,
               calls |-> 0, res |-> Null, finalResult |-> Null,
               executed |-> <<>>, returns |-> <<>>]
  /\ scriptSource = [source |-> "", compilerContext |-> "none", cachedExecutable |-> <<>>,
                     given |-> "", compiled |-> 0, op |-> "none", res |-> <<>>]
  /\ members = [indexedVars |-> <<>>, op |-> "none", aIndex |-> 0, aMember |-> NullPtr,
                aTypeRequirements |-> {}, res |-> NullPtr, crashed |-> FALSE]
  /\ builtin = [func |-> "none", indexedVars |-> <<>>, evaluationCB |-> FALSE,
                pc |-> "idle", finished |-> 0, results |-> <<>>, outcome |-> "none"]

Init == ThreadsInit /\ TriggerInit /\ LookupInit /\ TimedInit /\ ValuesInit

\* the last pointer to a thread is gone: the thread and the context of the
\* function it called are destroyed
Destroy ==
  /\ ~crashed
  /\ Unreferenced # {}
  /\ th' = [ t \in ThreadIds |-> IF t \in Unreferenced THEN NewThread ELSE th[t] ]
  /\ child' = [ t \in ThreadIds |-> IF t \in Unreferenced THEN NewChild ELSE child[t] ]
  /\ nested' = [ t \in ThreadIds |-> IF t \in Unreferenced THEN FALSE ELSE nested[t] ]
  /\ UNCHANGED <<threads, queuedThreads, stack, now, crashed, nextId, delivered, timing>>
  /\ UNCHANGED otherVars

\* the clock advances; the engine sees it where it reads MainLoop::now(), in
\* run() and in resume()
Tick ==
  /\ now < MaxTime
  /\ stack # <<>>
  /\ Top.proc \in {"run", "resume"}
  /\ Top.pc \in {"entry", "loop"}
  /\ Running
  /\ now' = now + 1
  /\ UNCHANGED <<threads, queuedThreads, th, child, stack, crashed, nextId, delivered, timing, nested>>
  /\ UNCHANGED otherVars

\* ------------------------------------------------------- the host's calls
\* The host calls ScriptCodeContext::evaluate() with compiled code: from its
\* event loop, or from inside a callback.
HostEvaluate ==
  /\ HostRuns
  /\ nextId <= MaxThreads
  /\ \E fl \in EvalFlagChoices :
       HostCall(Frame("evaluate", nextId, "Code", fl))
  /\ nextId' = nextId + 1
  /\ UNCHANGED <<threads, queuedThreads, th, child, now, crashed, delivered, timing, nested>>
  /\ UNCHANGED otherVars

\* the threads in a list of threads
Listed(s) == { s[i] : i \in 1..Len(s) }

\* a call of ScriptCodeContext::abort(); ids keeps the threads running at
\* its entry, queued the threads in the queue (history, for the properties)
AbortCall(res, fl) ==
  [Frame("ctxAbort", 0, res, fl) EXCEPT !.ids = Listed(threads),
                                        !.queued = Listed(queuedThreads)]

\* The host calls ScriptCodeContext::abort()
HostAbort ==
  /\ HostRuns
  /\ \E fl \in AbortFlagChoices, res \in {"NULL", "E_Host"} :
       HostCall(AbortCall(res, fl))
  /\ UNCHANGED <<threads, queuedThreads, th, child, now, crashed, nextId, delivered, timing, nested>>
  /\ UNCHANGED otherVars

\* a callback of the host returns to the engine
HostReturn ==
  /\ At("hostCB", "entry")
  /\ Return
  /\ UNCHANGED <<threads, queuedThreads, th, child, now, crashed, nextId, delivered, timing, nested>>
  /\ UNCHANGED otherVars

\* ------------------------------------------- ScriptCodeContext::evaluate
\* how evaluate() treats the new thread: the checks of lines 634..651
EvaluateMode(running, aEvalFlags) ==
  IF running # <<>> /\ "stoprunning" \in aEvalFlags THEN "stop"
  ELSE IF running # <<>> /\ "queue" \in aEvalFlags THEN "queue"
  ELSE IF running # <<>> /\ "concurrently" \notin aEvalFlags THEN "busy"
  ELSE "start"

\* ScriptCodeContext::clearVars: namedVars.clear()
clearVars(nv) == NoVars

Evaluate ==
  /\ At("evaluate", "entry")
  /\ Top.arg = "Code"
  /\ th' = [th EXCEPT ![Top.t] =
                [prepare(NewThread, Top.flags, timing[1], timing[2])
                   EXCEPT !.syncExecDone = (Top.note = "syncExecDone")]]
  /\ LET t == Top.t
         mode == EvaluateMode(threads, Top.flags) IN
       CASE mode = "stop" ->
              /\ CallNote("start", mode, AbortCall("E_AbortedByStart", stopall))
              /\ UNCHANGED <<threads, queuedThreads>>
         [] mode = "queue" ->
              /\ queuedThreads' = Append(queuedThreads, t)
              /\ Return
              /\ UNCHANGED threads
         [] mode = "busy" ->
              /\ CallNote("ret", mode, Frame("abort", t, "E_Busy", {}))
              /\ UNCHANGED <<threads, queuedThreads>>
         [] OTHER ->
              /\ threads' = Append(threads, t)
              /\ CallNote("ret", mode, Frame("run", t, "NULL", {}))
              /\ UNCHANGED queuedThreads
  /\ namedVars' = IF "keepvars" \in Top.flags THEN namedVars ELSE clearVars(namedVars)
  /\ UNCHANGED <<child, now, crashed, nextId, delivered, timing, nested>>
  /\ UNCHANGED <<mainVars, globalVars, thisVars, lookups, asked, found, setRes>>
  /\ UNCHANGED <<triggerVars, timedVars, valueVars>>

\* evaluate() after abort(stopall) has returned: start the new thread
EvaluateStart ==
  /\ At("evaluate", "start")
  /\ threads' = Append(threads, Top.t)
  /\ Call("ret", Frame("run", Top.t, "NULL", {}))
  /\ UNCHANGED <<queuedThreads, th, child, now, crashed, nextId, delivered, timing, nested>>
  /\ UNCHANGED otherVars

\* ---------------------------------------------- ScriptCodeContext::abort
\* the loop over the queued threads, then the loop over the running ones
CtxAbortNext(fl, res) ==
  IF "queue" \in fl /\ queuedThreads # <<>> /\ Top.pc # "rloop"
    THEN Call("qpop", Frame("abort", Back(queuedThreads), "E_QueueRemoved", {}))
  ELSE IF "stoprunning" \in fl /\ threads # <<>>
    THEN Call("rpop", Frame("abort", Back(threads), res, {}))
  ELSE Return

CtxAbort ==
  /\ \/ At("ctxAbort", "entry")
     \/ At("ctxAbort", "qloop")
     \/ At("ctxAbort", "rloop")
  /\ CtxAbortNext(Top.flags, Top.arg)
  /\ UNCHANGED <<threads, queuedThreads, th, child, now, crashed, nextId, delivered, timing, nested>>
  /\ UNCHANGED otherVars

\* queuedThreads.pop_back() after the abort of the queued thread has returned
CtxAbortPopQueued ==
  /\ At("ctxAbort", "qpop")
  /\ queuedThreads # <<>>
  /\ queuedThreads' = PopBack(queuedThreads)
  /\ Goto("qloop")
  /\ UNCHANGED <<threads, th, child, now, crashed, nextId, delivered, timing, nested>>
  /\ UNCHANGED otherVars

\* threads.pop_back() after the abort of the running thread has returned
CtxAbortPopRunning ==
  /\ At("ctxAbort", "rpop")
  /\ threads # <<>>
  /\ threads' = PopBack(threads)
  /\ Goto("rloop")
  /\ UNCHANGED <<queuedThreads, th, child, now, crashed, nextId, delivered, timing, nested>>
  /\ UNCHANGED otherVars

\* pop_back() of an empty std::list is undefined: the process dies, or the
\* list is left as it is
CtxAbortPopEmpty ==
  /\ \/ At("ctxAbort", "qpop") /\ queuedThreads = <<>>
     \/ At("ctxAbort", "rpop") /\ threads = <<>>
  /\ \/ crashed' = TRUE /\ UNCHANGED stack
     \/ Goto(IF Top.pc = "qpop" THEN "qloop" ELSE "rloop") /\ UNCHANGED crashed
  /\ UNCHANGED <<threads, queuedThreads, th, child, now, nextId, delivered, timing, nested>>
  /\ UNCHANGED otherVars

\* --------------------------------------- ScriptCodeContext::threadTerminated
\* the queued thread threadTerminated() starts, if any: pushes run() of it
StartQueued(running) ==
  IF queuedThreads # <<>>
    THEN /\ threads' = Append(running, Head(queuedThreads))
         /\ queuedThreads' = Tail(queuedThreads)
         /\ Call("ret", Frame("run", Head(queuedThreads), "NULL", {}))
    ELSE /\ threads' = running
         /\ UNCHANGED queuedThreads
         /\ Return

\* the thread is not in the list, or erase() is followed by ++pos on the
\* erased node and the node still links to its successor
ThreadTerminated ==
  /\ At("threadTerminated", "entry")
  /\ StartQueued(RemoveAll(threads, Top.t))
  /\ UNCHANGED <<th, child, now, crashed, nextId, delivered, timing, nested>>
  /\ UNCHANGED otherVars

\* ++pos on the erased node reads freed memory: the process dies
ThreadTerminatedErasedNode ==
  /\ At("threadTerminated", "entry")
  /\ InSeq(threads, Top.t)
  /\ crashed' = TRUE
  /\ UNCHANGED <<threads, queuedThreads, th, child, stack, now, nextId, delivered, timing, nested>>
  /\ UNCHANGED otherVars

\* ------------------------------------------------------ ScriptCodeThread
\* the member functions of BuiltinFunctionContext
ChildProcs == {"builtinEvaluate", "implementation", "finish", "childAbort"}

\* ScriptCodeThread::abort that always resumes the thread itself (a variant
\* of the code, to show that the order of the abort depends on the branch)
AbortViaChildNever(thr) == FALSE

\* ScriptCodeThread::abort hands the abort to the child context, if there is one
AbortViaChild(thr) == thr.childContext

\* ScriptCodeThread::abort
ThreadAbort ==
  /\ At("abort", "entry")
  /\ LET t == Top.t
         thr == th[t] IN
       /\ th' = [th EXCEPT ![t].result = IF Top.arg # "NULL" THEN Top.arg ELSE @,
                           ![t].aborted = TRUE]
       /\ LET callee == IF AbortViaChild(thr)
                           THEN Frame("childAbort", t, Top.arg, stopall)
                           ELSE Frame("resume", t, "NULL", {}) IN
            \* loc: whether the thread had a child context when it was aborted
            stack' = Append([stack EXCEPT ![Len(stack)].pc = "ret",
                                          ![Len(stack)].loc = IF thr.childContext THEN 1 ELSE 0],
                            callee)
  /\ UNCHANGED <<threads, queuedThreads, child, now, crashed, nextId, delivered, timing, nested>>
  /\ UNCHANGED otherVars

\* ScriptCodeThread::run
ThreadRun ==
  /\ At("run", "entry")
  /\ th' = [th EXCEPT ![Top.t].runningSince = now]
  /\ Call("ret", Frame("resume", Top.t, "NULL", {}))
  /\ UNCHANGED <<threads, queuedThreads, child, now, crashed, nextId, delivered, timing, nested>>
  /\ UNCHANGED otherVars

\* resume() without its re-entrancy test (a variant of the code, to show that
\* the re-entrancy properties depend on the test)
ResumeNestedIgnored(thr) == FALSE

\* resume(): "am I getting called from a chain of calls originating from myself"
ResumeNested(thr) == thr.resuming

\* ScriptCodeThread::resume up to the loop
ThreadResume ==
  /\ At("resume", "entry")
  /\ LET t == Top.t
         thr == th[t]
         res == IF Top.arg # "NULL" THEN Top.arg ELSE thr.result IN
       IF ResumeNested(thr)
         THEN /\ th' = [th EXCEPT ![t].result = res, ![t].resumed = TRUE]
              /\ nested' = [nested EXCEPT ![t] = TRUE]
              /\ Return
         ELSE /\ th' = [th EXCEPT ![t].result = res, ![t].resuming = TRUE]
              /\ stack' = [stack EXCEPT ![Len(stack)].pc = "loop", ![Len(stack)].loc = now]
              /\ UNCHANGED nested
  /\ UNCHANGED <<threads, queuedThreads, child, now, crashed, nextId, delivered, timing>>
  /\ UNCHANGED otherVars

\* the check of the overall execution limit, line 1416
RunTimeExceeded(thr, aNow) == thr.maxRunTime # Infinite /\ aNow - thr.runningSince # 0

\* the check of the uninterrupted block time, line 1422
BlockTimeExceeded(thr, aNow, loopingSince) ==
  thr.maxBlockTime # Infinite /\ aNow - loopingSince > thr.maxBlockTime

\* what one pass of the loop in resume() does before step()
ResumeBranch(thr, aNow, loopingSince) ==
  IF thr.aborted THEN "aborted"
  ELSE IF RunTimeExceeded(thr, aNow) THEN "timeout"
  ELSE IF BlockTimeExceeded(thr, aNow, loopingSince)
    THEN (IF "synchronously" \in thr.evaluationFlags THEN "synctimeout" ELSE "yield")
  ELSE "step"

\* one pass of the do-loop of resume(): the checks, then the call of step()
ThreadResumeLoop ==
  /\ At("resume", "loop")
  /\ LET t == Top.t
         br == ResumeBranch(th[t], now, Top.loc) IN
       CASE br = "aborted" ->
              /\ th' = [th EXCEPT ![t].result = "E_AbortedScript"]
              /\ CallNote("ret", br, Frame("endThread", t, "NULL", {}))
              /\ UNCHANGED nested
         [] br = "timeout" ->
              /\ th' = [th EXCEPT ![t].result = "E_Timeout"]
              /\ CallNote("ret", br, Frame("endThread", t, "NULL", {}))
              /\ UNCHANGED nested
         [] br = "synctimeout" ->
              /\ th' = [th EXCEPT ![t].result = "E_SyncTimeout"]
              /\ CallNote("ret", br, Frame("endThread", t, "NULL", {}))
              /\ UNCHANGED nested
         [] br = "yield" ->
              \* autoResumeTicket.executeOnce(...), and on to step()
              /\ th' = [th EXCEPT ![t].autoResumeTicket = TRUE, ![t].resumed = FALSE]
              /\ CallNote("test", br, Frame("step", t, "NULL", {}))
              /\ nested' = [nested EXCEPT ![t] = FALSE]
         [] OTHER ->
              /\ th' = [th EXCEPT ![t].resumed = FALSE]
              /\ CallNote("test", br, Frame("step", t, "NULL", {}))
              /\ nested' = [nested EXCEPT ![t] = FALSE]
  /\ UNCHANGED <<threads, queuedThreads, child, now, crashed, nextId, delivered, timing>>
  /\ UNCHANGED otherVars

\* while(resumed), and the end of resume()
ThreadResumeTest ==
  /\ At("resume", "test")
  /\ IF th[Top.t].resumed
       THEN /\ Goto("loop")
            /\ UNCHANGED th
       ELSE /\ th' = [th EXCEPT ![Top.t].resuming = FALSE]
            /\ Return
  /\ UNCHANGED <<threads, queuedThreads, child, now, crashed, nextId, delivered, timing, nested>>
  /\ UNCHANGED otherVars

\* ScriptCodeThread::step with an error as the result: endThread(), and the
\* function goes on
ThreadStepError ==
  /\ At("step", "entry")
  /\ IsError(th[Top.t].result)
  /\ Call("fall", Frame("endThread", Top.t, "NULL", {}))
  /\ UNCHANGED <<threads, queuedThreads, th, child, now, crashed, nextId, delivered, timing, nested>>
  /\ UNCHANGED otherVars

\* ScriptCodeThread::step, the rest: the dummy result, endThread()
ThreadStepDummy ==
  /\ \/ At("step", "fall")
     \/ At("step", "entry") /\ ~IsError(th[Top.t].result)
  /\ th' = [th EXCEPT ![Top.t].result = "Dummy"]
  /\ Call("ret", Frame("endThread", Top.t, "NULL", {}))
  /\ UNCHANGED <<threads, queuedThreads, child, now, crashed, nextId, delivered, timing, nested>>
  /\ UNCHANGED otherVars

\* The step of the statement engine that executes a function call (the
\* function-exec state): the thread creates the function's context and
\* evaluates the function in it, with resume() as the evaluation callback.
\* child[t] is the context of the call in progress; an activation of the
\* context of the call before it (its finish() or abort() running the
\* callback that led here) keeps its own object: loc = 1 marks it.
ThreadStepFunctionExec ==
  /\ At("step", "entry")
  /\ ~IsError(th[Top.t].result)
  /\ ~th[Top.t].childContext
  /\ th' = [th EXCEPT ![Top.t].childContext = TRUE]
  /\ child' = [child EXCEPT ![Top.t] = NewChild]
  /\ \E f \in BuiltinFuncs :
       stack' = Append(
         [ i \in 1..Len(stack) |->
             IF i = Len(stack) THEN [stack[i] EXCEPT !.pc = "ret"]
             ELSE IF stack[i].t = Top.t /\ stack[i].proc \in ChildProcs
               THEN [stack[i] EXCEPT !.loc = 1]
             ELSE stack[i] ],
         Frame("builtinEvaluate", Top.t, f, th[Top.t].evaluationFlags))
  /\ UNCHANGED <<threads, queuedThreads, now, crashed, nextId, delivered, timing, nested>>
  /\ UNCHANGED otherVars

\* The evaluation callback the thread has given to the function's context:
\* the call is over, the thread resumes with its result.
ThreadChildDone ==
  /\ At("childCB", "entry")
  /\ th' = [th EXCEPT ![Top.t].childContext = FALSE]
  /\ Call("ret", Frame("resume", Top.t, Top.arg, {}))
  /\ UNCHANGED <<threads, queuedThreads, child, now, crashed, nextId, delivered, timing, nested>>
  /\ UNCHANGED otherVars

\* endThread() that leaves the termination callback in place (a variant of
\* the code, to show that the single delivery depends on its removal)
CallbackKept(thr) == [thr EXCEPT !.autoResumeTicket = FALSE]

\* endThread(): autoResumeTicket.cancel(); cb = terminationCB; terminationCB = NULL
CallbackTaken(thr) == [thr EXCEPT !.terminationCB = FALSE, !.autoResumeTicket = FALSE]

\* endThread() calls owner->threadTerminated(this); notified counts these
\* calls of the thread (history, for the properties: 0, 1, more)
Notifying(thr) == [thr EXCEPT !.notified = IF @ < 2 THEN @ + 1 ELSE @]

\* ScriptCodeThread::endThread
ThreadEnd ==
  /\ At("endThread", "entry")
  /\ LET t == Top.t IN
       IF th[t].terminationCB
         THEN /\ th' = [th EXCEPT ![t] = CallbackTaken(th[t])]
              /\ delivered' = [delivered EXCEPT ![t] = Append(@, th[t].result)]
              /\ Call("term", Frame(IF th[t].syncExecDone THEN "syncExecDone" ELSE "hostCB",
                                    t, th[t].result, {}))
         ELSE /\ Call("ret", Frame("threadTerminated", t, "NULL", {}))
              /\ th' = [th EXCEPT ![t] = Notifying(th[t])]
              /\ UNCHANGED delivered
  /\ UNCHANGED <<threads, queuedThreads, child, now, crashed, nextId, timing, nested>>
  /\ UNCHANGED otherVars

\* endThread() after the termination callback has returned
ThreadEndNotify ==
  /\ At("endThread", "term")
  /\ Call("ret", Frame("threadTerminated", Top.t, "NULL", {}))
  /\ th' = [th EXCEPT ![Top.t] = Notifying(th[Top.t])]
  /\ UNCHANGED <<threads, queuedThreads, child, now, crashed, nextId, delivered, timing, nested>>
  /\ UNCHANGED otherVars

\* the auto-resume timer of a thread fires in the main loop: selfKeepingResume
AutoResumeFires ==
  /\ stack = <<>>
  /\ Running
  /\ \E t \in ThreadIds :
       /\ th[t].autoResumeTicket
       /\ th' = [th EXCEPT ![t].autoResumeTicket = FALSE]
       /\ stack' = << [Frame("selfKeepingResume", t, "NULL", {}) EXCEPT !.pc = "ret"],
                      Frame("resume", t, "NULL", {}) >>
  /\ UNCHANGED <<threads, queuedThreads, child, now, crashed, nextId, delivered, timing, nested>>
  /\ UNCHANGED otherVars

\* ------------------------------------------------ BuiltinFunctionContext
\* evaluate() that never refuses a function (a variant of the code, to show
\* that the rejection of async functions depends on the test)
AsyncRejectedNever(aEvalFlags, f) == FALSE

\* evaluate(): an async function is refused in a synchronous evaluation
AsyncRejected(aEvalFlags, f) == "synchronously" \in aEvalFlags /\ IsAsync(f)

\* BuiltinFunctionContext::evaluate
BuiltinEvaluate ==
  /\ At("builtinEvaluate", "entry")
  /\ LET t == Top.t
         f == Top.arg IN
       CASE f = "none" ->
              /\ child' = [child EXCEPT ![t].func = "none"]
              /\ CallNote("ret", "inconsistent", Frame("childCB", t, "E_Internal", {}))
         [] f # "none" /\ AsyncRejected(Top.flags, f) ->
              /\ child' = [child EXCEPT ![t].func = f]
              /\ CallNote("ret", "rejected", Frame("childCB", t, "E_AsyncNotAllowed", {}))
         [] OTHER ->
              /\ child' = [child EXCEPT ![t].func = f, ![t].abortCB = FALSE,
                                        ![t].evaluationCB = TRUE]
              /\ CallNote("ret", "implementation", Frame("implementation", t, f, {}))
  /\ UNCHANGED <<threads, queuedThreads, th, now, crashed, nextId, delivered, timing, nested>>
  /\ UNCHANGED otherVars

\* the implementation of a standard function: it calls finish() with its result
BuiltinImplementation ==
  /\ At("implementation", "entry")
  /\ ~IsAsync(Top.arg)
  /\ Call("ret", Frame("finish", Top.t, "FuncResult", {}))
  /\ UNCHANGED <<threads, queuedThreads, th, child, now, crashed, nextId, delivered, timing, nested>>
  /\ UNCHANGED otherVars

\* delay_func: the delay ticket is armed with finish() and its cancel is
\* registered as the abort callback.  The TicketObj is held by the local
\* delayTicket alone (the abort callback binds the address of its ticket): it
\* is destroyed when delay_func returns, which cancels the ticket (~MLTicket),
\* so that finish() is never called and the abort callback is left dangling.
delay_func ==
  /\ At("implementation", "entry")
  /\ IsAsync(Top.arg)
  /\ child' = [child EXCEPT ![Top.t].abortCB = TRUE]
  /\ Return
  /\ UNCHANGED <<threads, queuedThreads, th, now, crashed, nextId, delivered, timing, nested>>
  /\ UNCHANGED otherVars

\* BuiltinFunctionContext::finish; calling an empty evaluationCB throws
BuiltinFinish ==
  /\ At("finish", "entry")
  /\ child' = [child EXCEPT ![Top.t].abortCB = FALSE, ![Top.t].func = "none"]
  /\ IF child[Top.t].evaluationCB
       THEN Call("clr", Frame("childCB", Top.t, Top.arg, {})) /\ UNCHANGED crashed
       ELSE crashed' = TRUE /\ UNCHANGED stack
  /\ UNCHANGED <<threads, queuedThreads, th, now, nextId, delivered, timing, nested>>
  /\ UNCHANGED otherVars

\* finish() and abort() after the evaluation callback has returned
BuiltinCallbackDone ==
  /\ \/ At("finish", "clr")
     \/ At("childAbort", "clr")
  /\ child' = IF Top.loc = 1 THEN child
            ELSE [child EXCEPT ![Top.t].evaluationCB = FALSE, ![Top.t].func = "none"]
  /\ Return
  /\ UNCHANGED <<threads, queuedThreads, th, now, crashed, nextId, delivered, timing, nested>>
  /\ UNCHANGED otherVars

\* BuiltinFunctionContext::abort calls the abort callback delay_func has
\* registered: MLTicket::cancel() of a destroyed ticket.  That is undefined:
\* the process dies here, or the call does nothing (BuiltinAbort).
BuiltinAbortDangling ==
  /\ At("childAbort", "entry")
  /\ child[Top.t].abortCB
  /\ crashed' = TRUE
  /\ UNCHANGED <<threads, queuedThreads, th, child, stack, now, nextId, delivered, timing, nested>>
  /\ UNCHANGED otherVars

\* BuiltinFunctionContext::abort: the abort callback first, then the
\* evaluation callback with the abort result.  Without an abort result the
\* error names func->descriptor, which must not be null.
BuiltinAbort ==
  /\ At("childAbort", "entry")
  /\ LET t == Top.t
         c == child[t]
         stopped == [c EXCEPT !.abortCB = FALSE] IN
       IF c.evaluationCB
         THEN IF Top.arg = "NULL" /\ c.func = "none"
                THEN /\ crashed' = TRUE
                     /\ child' = [child EXCEPT ![t] = stopped]
                     /\ UNCHANGED stack
                ELSE /\ child' = [child EXCEPT ![t] = stopped]
                     /\ CallNote("clr", IF c.abortCB THEN "abortCB" ELSE "",
                                 Frame("childCB", t,
                                       IF Top.arg = "NULL" THEN "E_BuiltinAborted" ELSE Top.arg, {}))
                     /\ UNCHANGED crashed
         ELSE /\ child' = [child EXCEPT ![t] = [stopped EXCEPT !.func = "none"]]
              /\ Return
              /\ UNCHANGED crashed
  /\ UNCHANGED <<threads, queuedThreads, th, now, nextId, delivered, timing, nested>>
  /\ UNCHANGED otherVars

\* ------------------------------------ ExecutionContext::evaluateSynchronously
\* flag words the host passes to evaluateSynchronously()
SyncFlagChoices == { {}, {"stoprunning"}, {"queue"}, {"concurrently"} }

\* The host calls evaluateSynchronously() with compiled code
HostEvaluateSynchronously ==
  /\ HostRuns
  /\ nextId <= MaxThreads + MaxSync
  /\ \E fl \in SyncFlagChoices :
       HostCall(Frame("evaluateSynchronously", nextId, "Code", fl))
  /\ nextId' = nextId + 1
  /\ UNCHANGED <<threads, queuedThreads, th, child, now, crashed, delivered, timing, nested>>
  /\ UNCHANGED otherVars

\* evaluateSynchronously() up to the call of evaluate().  From here on the
\* activation's arg is the local syncResult and its loc the local finished.
EvaluateSynchronously ==
  /\ At("evaluateSynchronously", "entry")
  /\ stack' = Append(
       [stack EXCEPT ![Len(stack)].pc = "test", ![Len(stack)].arg = "NULL"],
       [Frame("evaluate", Top.t, Top.arg, Top.flags \cup {"synchronously"})
          EXCEPT !.note = "syncExecDone"])
  /\ UNCHANGED <<threads, queuedThreads, th, child, now, crashed, nextId, delivered, timing, nested>>
  /\ UNCHANGED otherVars

\* the activations of evaluateSynchronously() whose locals the callback of
\* thread t is bound to
SyncActivations(t) ==
  { i \in 1..Len(stack) : stack[i].proc = "evaluateSynchronously" /\ stack[i].t = t }

\* syncExecDone: stores the result and sets finished.  The locals are gone
\* when evaluateSynchronously() has returned: the write is undefined then
\* (the process dies, or the write is lost).
SyncExecDone ==
  /\ At("syncExecDone", "entry")
  /\ IF SyncActivations(Top.t) # {}
       THEN /\ stack' = Unwind(SubSeq(
                   [ i \in 1..Len(stack) |->
                       IF i \in SyncActivations(Top.t)
                         THEN [stack[i] EXCEPT !.arg = Top.arg, !.loc = 1]
                         ELSE stack[i] ],
                   1, Len(stack) - 1))
            /\ UNCHANGED crashed
       ELSE \/ crashed' = TRUE /\ UNCHANGED stack
            \/ Return /\ UNCHANGED crashed
  /\ UNCHANGED <<threads, queuedThreads, th, child, now, nextId, delivered, timing, nested>>
  /\ UNCHANGED otherVars

\* evaluateSynchronously() after evaluate() has returned: "if (!finished)"
EvaluateSynchronouslyTest ==
  /\ At("evaluateSynchronously", "test")
  /\ IF Top.loc = 1
       THEN Return
       ELSE stack' = Append(
              [stack EXCEPT ![Len(stack)].pc = "ret", ![Len(stack)].loc = 1,
                            ![Len(stack)].note = "async"],
              AbortCall("E_Internal", stopall))
  /\ UNCHANGED <<threads, queuedThreads, th, child, now, crashed, nextId, delivered, timing, nested>>
  /\ UNCHANGED otherVars

\* ------------------------------------------------------------------ Next
Next ==
  \/ Tick
  \/ Destroy
  \/ HostEvaluate
  \/ HostAbort
  \/ HostReturn
  \/ Evaluate
  \/ EvaluateStart
  \/ CtxAbort
  \/ CtxAbortPopQueued
  \/ CtxAbortPopRunning
  \/ CtxAbortPopEmpty
  \/ ThreadTerminated
  \/ ThreadTerminatedErasedNode
  \/ ThreadAbort
  \/ ThreadRun
  \/ ThreadResume
  \/ ThreadResumeLoop
  \/ ThreadResumeTest
  \/ ThreadStepError
  \/ ThreadStepDummy
  \/ ThreadStepFunctionExec
  \/ ThreadChildDone
  \/ ThreadEnd
  \/ ThreadEndNotify
  \/ AutoResumeFires
  \/ BuiltinEvaluate
  \/ BuiltinImplementation
  \/ delay_func
  \/ BuiltinFinish
  \/ BuiltinCallbackDone
  \/ BuiltinAbortDangling
  \/ BuiltinAbort

Spec == Init /\ [][Next]_vars

\* the engine with a host that evaluates and evaluates synchronously, and
\* leaves every abort() to the engine
NextSync ==
  \/ Tick
  \/ Destroy
  \/ HostEvaluate
  \/ HostReturn
  \/ Evaluate
  \/ EvaluateStart
  \/ CtxAbort
  \/ CtxAbortPopQueued
  \/ CtxAbortPopRunning
  \/ CtxAbortPopEmpty
  \/ ThreadTerminated
  \/ ThreadTerminatedErasedNode
  \/ ThreadAbort
  \/ ThreadRun
  \/ ThreadResume
  \/ ThreadResumeLoop
  \/ ThreadResumeTest
  \/ ThreadStepError
  \/ ThreadStepDummy
  \/ ThreadStepFunctionExec
  \/ ThreadChildDone
  \/ ThreadEnd
  \/ ThreadEndNotify
  \/ AutoResumeFires
  \/ BuiltinEvaluate
  \/ BuiltinImplementation
  \/ delay_func
  \/ BuiltinFinish
  \/ BuiltinCallbackDone
  \/ BuiltinAbortDangling
  \/ BuiltinAbort
  \/ HostEvaluateSynchronously
  \/ EvaluateSynchronously
  \/ EvaluateSynchronouslyTest
  \/ SyncExecDone

SpecSync == Init /\ [][NextSync]_vars

\* ======================================================================
\* Properties
\* ======================================================================

\* resume() has been called for a thread that is inside the loop of an
\* earlier resume() activation of its own
NestedResumeCall ==
  /\ stack # <<>> /\ Top.proc = "resume" /\ Top.pc = "entry" /\ Running
  /\ \E i \in 1..(Len(stack) - 1) :
       stack[i].proc = "resume" /\ stack[i].t = Top.t /\ stack[i].pc # "entry"

\* the nested call stores the result passed (if any), sets resumed and returns
NestedResumeReturns ==
  (NestedResumeCall /\ stack' # stack) =>
     /\ th'[Top.t].resumed
     /\ th'[Top.t].result = (IF Top.arg # "NULL" THEN Top.arg ELSE th[Top.t].result)
     /\ Len(stack') < Len(stack)

\* step() is active at most once per thread
StepOnce == \A t \in ThreadIds : Active("step", t) <= 1

\* after a step, the loop of resume() makes another pass exactly when a nested
\* resume() has happened during that step
LoopAgainIffNested ==
  (At("resume", "test") /\ stack' # stack) =>
     ((Len(stack') = Len(stack) /\ Top'.pc = "loop") <=> nested[Top.t])

AbortWithChild(i) ==
  stack[i].proc = "abort" /\ stack[i].pc = "ret" /\ stack[i].loc = 1

\* activation j is the termination callback of the thread of activation i,
\* called from within activation i
TerminationWithin(i, j) ==
  j > i /\ stack[j].proc = "hostCB" /\ stack[j].t = stack[i].t

\* C3: when abort() is called for a thread with an outstanding child context,
\* abort() calls the child's abort and not resume(); the thread's termination
\* callback is delivered only inside the child's abort, after the abort
\* callback the function has registered has been called, and from the
\* resume() that the child's completion callback has called.
C3_AbortThroughChild ==
  \A i \in 1..Len(stack) :
    AbortWithChild(i) =>
      /\ i < Len(stack) => stack[i + 1].proc = "childAbort" /\ stack[i + 1].t = stack[i].t
      /\ \A j \in 1..Len(stack) :
           TerminationWithin(i, j) =>
             /\ j >= i + 5
             /\ stack[i + 2].proc = "childCB" /\ stack[i + 2].t = stack[i].t
             /\ stack[i + 3].proc = "resume" /\ stack[i + 3].t = stack[i].t
             /\ child[stack[i].t].func = "delay" => stack[i + 1].note = "abortCB"
             /\ (j = Len(stack) /\ stack[j].pc = "entry") => ~child[stack[i].t].abortCB

\* C3, reachability: the termination callback of a thread is being delivered
\* inside an abort() that found the thread with a child context
C3_Witness ==
  \E i \in 1..Len(stack) :
    /\ AbortWithChild(i)
    /\ TerminationWithin(i, Len(stack))
    /\ stack[i + 1].note = "abortCB"

\* C4: when a running thread is aborted with an explicit abort result, the
\* value its termination callback receives within that abort is that result.
C4_AbortResultDelivered ==
  \A i, j \in 1..Len(stack) :
    (/\ i > 1 /\ stack[i - 1].proc = "ctxAbort" /\ stack[i - 1].pc = "rpop"
     /\ stack[i].proc = "abort" /\ stack[i].arg # "NULL"
     /\ j > i /\ stack[j].proc = "hostCB" /\ stack[j].t = stack[i].t)
      => stack[j].arg = stack[i].arg

\* activation i is BuiltinFunctionContext::evaluate of an async function in a
\* synchronous evaluation, past its test
AsyncInSync(i) ==
  /\ stack[i].proc = "builtinEvaluate" /\ stack[i].pc # "entry"
  /\ IsAsync(stack[i].arg) /\ "synchronously" \in stack[i].flags

\* C5: evaluating an async function with the synchronously flag set calls the
\* evaluation callback with an AsyncNotAllowed error and not the function's
\* implementation (no abort callback is registered).
C5_AsyncNotAllowed ==
  \A i \in 1..Len(stack) :
    AsyncInSync(i) =>
      /\ stack[i].note = "rejected"
      /\ i < Len(stack)
      /\ stack[i + 1].proc = "childCB" /\ stack[i + 1].t = stack[i].t
      /\ ErrorCode(stack[i + 1].arg) = "AsyncNotAllowed"
      /\ ~child[stack[i].t].abortCB

\* C5, reachability: the thread is resumed with the AsyncNotAllowed error
C5_Witness ==
  /\ Len(stack) > 2 /\ AsyncInSync(Len(stack) - 2)
  /\ At("resume", "entry") /\ Top.arg = "E_AsyncNotAllowed"

\* C6: a pass of the loop of resume() ends a thread (one that is not aborted)
\* with the Timeout error of the overall execution limit if and only if the
\* maximum run time is finite and the time since the start exceeds it.
C6_TimeoutIffExceeded ==
  [][(At("resume", "loop") /\ stack' # stack /\ ~th[Top.t].aborted) =>
       ((Top'.proc = "endThread" /\ th'[Top.t].result = "E_Timeout")
          <=> (/\ th[Top.t].maxRunTime # Infinite
               /\ now - th[Top.t].runningSince > th[Top.t].maxRunTime))]_vars

\* a pass of the loop of resume() finds the block time exceeded (Top.loc is
\* loopingSince), the thread neither aborted nor at its overall limit
BlockTimeReached ==
  /\ At("resume", "loop")
  /\ ~th[Top.t].aborted /\ ~RunTimeExceeded(th[Top.t], now)
  /\ th[Top.t].maxBlockTime # Infinite /\ now - Top.loc > th[Top.t].maxBlockTime

\* C7: when the block time of a resume() call is exceeded, no further step is
\* executed in that call: a synchronous thread ends with a Timeout error, an
\* asynchronous one arms its auto-resume timer and resume() returns.
C7_NoStepAfterBlockTime ==
  [][(BlockTimeReached /\ stack' # stack) =>
       IF "synchronously" \in th[Top.t].evaluationFlags
         THEN Top'.proc = "endThread" /\ ErrorCode(th'[Top.t].result) = "Timeout"
         ELSE th'[Top.t].autoResumeTicket /\ Len(stack') < Len(stack)]_vars

\* C8: an evaluate() that finds a thread running and has none of the flags
\* stoprunning, queue, concurrently does not start the new thread, and the
\* callback of the new evaluation receives an error of kind Busy.
C8_BusyRejected ==
  \A i \in 1..Len(stack) :
    (stack[i].proc = "evaluate" /\ stack[i].note = "busy") =>
      /\ ~InSeq(threads, stack[i].t)
      /\ \A j \in (i + 1)..Len(stack) :
           (stack[j].proc = "hostCB" /\ stack[j].t = stack[i].t)
             => ErrorCode(stack[j].arg) = "Busy"

\* C9: when an abort() with stoprunning, called from the main loop on a
\* context with running threads, returns, the termination callback of each
\* of these threads has been invoked with an abort result and the list of
\* running threads is empty.
C9_AbortStopsAll ==
  [][(/\ Len(stack) = 1 /\ Top.proc = "ctxAbort" /\ "stoprunning" \in Top.flags
      /\ Top.ids # {} /\ stack' = <<>>) =>
       /\ threads' = <<>>
       /\ \A t \in Top.ids :
            /\ delivered'[t] # <<>>
            /\ \/ ErrorCode(Back(delivered'[t])) = "Aborted"
               \/ Back(delivered'[t]) = Top.arg]_vars

\* C33: the termination callback of a thread is invoked at most once: a
\* result is delivered to the host only for a thread that has none delivered
\* yet, so that whatever resume(), abort(), time limit or end of a function
\* call comes later delivers nothing more.
C33_CallbackOnce ==
  /\ [](\A t \in ThreadIds : Len(delivered[t]) <= 1)
  /\ [][\A t \in ThreadIds :
          delivered'[t] # delivered[t] =>
            delivered[t] = <<>> /\ th[t].terminationCB /\ ~th'[t].terminationCB]_vars

\* C33, reachability: endThread() is entered again for a thread whose
\* callback has been invoked, with another result than the one delivered
C33_Witness ==
  /\ At("endThread", "entry")
  /\ delivered[Top.t] # <<>>
  /\ ~th[Top.t].terminationCB
  /\ th[Top.t].result # Back(delivered[Top.t])

\* C34: a thread notifies its context of its termination once: there is
\* no second call of threadTerminated() for a thread, which would start a
\* second queued thread; this also when the thread ends on an error result.
C34_TerminatedOnce == \A t \in ThreadIds : th[t].notified <= 1

\* C35: the list of running threads of a context grows beyond one thread
\* only by an evaluate() with the concurrently flag: a queued thread is
\* started only in place of a running thread that has terminated, never
\* next to one (as a side effect of an evaluation rejected as Busy or of the
\* abort of a thread that was not running).
C35_OneRunningThread ==
  [][(threads # <<>> /\ Len(threads') > Len(threads)) =>
       (Top.proc = "evaluate" /\ "concurrently" \in Top.flags)]_vars

\* thread x is taken from the queue and started in this step
QueueStart(x) ==
  /\ InSeq(queuedThreads, x) /\ ~InSeq(queuedThreads', x)
  /\ ~InSeq(threads, x) /\ InSeq(threads', x)

\* C36: queued evaluations are started first in, first out, one per
\* termination of a running thread, each at most once: the thread started
\* is the one at the front of the queue, it has not run before, and it is
\* started by the first notification of the termination of a thread that
\* was running.
C36_QueueInOrder ==
  [][\A x \in ThreadIds :
       QueueStart(x) =>
         /\ x = Head(queuedThreads)
         /\ th[x].runningSince = Never
         /\ Top.proc = "threadTerminated"
         /\ InSeq(threads, Top.t)
         /\ th[Top.t].notified = 1]_vars

\* an abort() that empties the queue is in progress: activation i
AbortsQueue(i) == stack[i].proc = "ctxAbort" /\ "queue" \in stack[i].flags

\* C28: abort() with the queue flag removes every queued thread without
\* running it: while the abort is in progress run() is called of no thread
\* that was queued at its entry, and when the abort returns each of these
\* threads is in neither list and its termination callback has received an
\* Aborted error.
C28_QueuedRemovedUnrun ==
  /\ [](\A i \in 1..Len(stack) :
          AbortsQueue(i) =>
            \A j \in (i + 1)..Len(stack) :
              stack[j].proc = "run" => stack[j].t \notin stack[i].queued)
  /\ [][(/\ stack # <<>> /\ AbortsQueue(Len(stack)) /\ ~crashed'
         /\ Len(stack') < Len(stack)) =>
          \A t \in Top.queued :
            /\ ~InSeq(threads', t) /\ ~InSeq(queuedThreads', t)
            /\ delivered'[t] # <<>>
            /\ ErrorCode(Back(delivered'[t])) = "Aborted"]_vars

\* activation i is evaluateSynchronously() and returns in this step
SyncReturns(i) ==
  /\ i \in 1..Len(stack)
  /\ stack[i].proc = "evaluateSynchronously"
  /\ ~crashed'
  /\ Len(stack') < i

\* no thread of the context is left running, queued or waiting to resume
NothingOutstanding ==
  /\ threads' = <<>>
  /\ queuedThreads' = <<>>
  /\ \A t \in ThreadIds : ~th'[t].autoResumeTicket

\* C29: when evaluateSynchronously() returns, the completion callback has
\* run and the result returned is not null; if evaluate() had come back
\* without having completed, the result is an error and no thread of the
\* context is left running, queued or waiting to resume.
C29_SynchronousCompletes ==
  [][\A i \in 1..Len(stack) :
       SyncReturns(i) =>
         /\ delivered[stack[i].t] # <<>>
         /\ stack[i].arg # "NULL"
         /\ stack[i].note = "async" => (IsError(stack[i].arg) /\ NothingOutstanding)]_vars

\* ======================================================================
\* EvaluationContext::triggerEvaluation (expressions.cpp)
\* ======================================================================

\* the evaluation modes the host passes
EvalModes == {"current", "timed"}

\* an activation on the call stack of the expression evaluations: res is the
\* ExpressionValue evaluateNow() has returned to it, err the ErrorPtr err
CFrame(p, c, m) ==
  [ proc |-> p, ctx |-> c, pc |-> "entry", mode |-> m, res |-> "none", err |-> "none" ]

CTop == calls[Len(calls)]
CAt(p, l) == calls # <<>> /\ CTop.proc = p /\ CTop.pc = l
CPop == SubSeq(calls, 1, Len(calls) - 1)

\* the host runs: its main loop, a value lookup or a result handler
HostEvaluates ==
  \/ calls = <<>>
  \/ calls # <<>> /\ CTop.proc \in {"valueLookup", "handler"}

\* setEvaluationResultHandler
SetEvaluationResultHandler ==
  /\ HostEvaluates
  /\ \E c \in Ctxs, h \in BOOLEAN : handlers' = [handlers EXCEPT ![c] = h]
  /\ UNCHANGED <<evaluating, evalMode, calls, returned>>
  /\ UNCHANGED <<threadVars, lookupVars, timedVars, valueVars>>

\* the host calls triggerEvaluation() of a context
HostTrigger ==
  /\ HostEvaluates
  /\ Cardinality({ i \in 1..Len(calls) : calls[i].proc = "triggerEvaluation" }) < MaxCalls
  /\ \E c \in Ctxs, m \in EvalModes :
       calls' = Append(calls, CFrame("triggerEvaluation", c, m))
  /\ UNCHANGED <<evaluating, evalMode, handlers, returned>>
  /\ UNCHANGED <<threadVars, lookupVars, timedVars, valueVars>>

\* triggerEvaluation() that does not test evaluating (a variant of the code,
\* to show that the limit of the nesting depends on the test)
TriggerBusyNever(c) == FALSE

\* triggerEvaluation(): if (evaluating)
TriggerBusy(c) == evaluating[c]

\* triggerEvaluation() up to the call of evaluateNow()
TriggerEvaluation ==
  /\ CAt("triggerEvaluation", "entry")
  /\ LET c == CTop.ctx IN
       IF TriggerBusy(c)
         THEN /\ returned' = <<c, "CyclicReference">>
              /\ calls' = CPop
              /\ UNCHANGED evaluating
         ELSE /\ evaluating' = [evaluating EXCEPT ![c] = TRUE]
              /\ calls' = Append([calls EXCEPT ![Len(calls)].pc = "evaluated",
                                                ![Len(calls)].mode = "current"],
                                 CFrame("evaluateNow", c, CTop.mode))
              /\ UNCHANGED returned
  /\ UNCHANGED <<evalMode, handlers>>
  /\ UNCHANGED <<threadVars, lookupVars, timedVars, valueVars>>

\* evaluateNow() up to the evaluation of the expression
EvaluateNow ==
  /\ CAt("evaluateNow", "entry")
  /\ evalMode' = IF CTop.mode # "current"
                   THEN [evalMode EXCEPT ![CTop.ctx] = CTop.mode] ELSE evalMode
  /\ calls' = [calls EXCEPT ![Len(calls)].pc = "expression", ![Len(calls)].mode = "current"]
  /\ UNCHANGED <<evaluating, handlers, returned>>
  /\ UNCHANGED <<threadVars, lookupVars, timedVars, valueVars>>

\* the expression has a term that is a name: valueLookup(), which the host
\* implements
ExpressionLookup ==
  /\ CAt("evaluateNow", "expression")
  /\ calls' = Append(calls, CFrame("valueLookup", CTop.ctx, "current"))
  /\ UNCHANGED <<evaluating, evalMode, handlers, returned>>
  /\ UNCHANGED <<threadVars, lookupVars, timedVars, valueVars>>

\* the host's value lookup returns
LookupReturns ==
  /\ CAt("valueLookup", "entry")
  /\ calls' = CPop
  /\ UNCHANGED <<evaluating, evalMode, handlers, returned>>
  /\ UNCHANGED <<threadVars, lookupVars, timedVars, valueVars>>

\* the expression is evaluated: evaluateNow() returns its value
ExpressionDone ==
  /\ CAt("evaluateNow", "expression")
  /\ \E r \in {"ok", "notOk"} :
       calls' = [CPop EXCEPT ![Len(calls) - 1].res = r]
  /\ UNCHANGED <<evaluating, evalMode, handlers, returned>>
  /\ UNCHANGED <<threadVars, lookupVars, timedVars, valueVars>>

\* triggerEvaluation() after evaluateNow(): the result handler is called, or
\* the error of the evaluation is passed on
TriggerResult ==
  /\ CAt("triggerEvaluation", "evaluated")
  /\ CTop.res # "none"
  /\ IF handlers[CTop.ctx]
       THEN calls' = Append([calls EXCEPT ![Len(calls)].pc = "handled"],
                            [CFrame("handler", CTop.ctx, "current") EXCEPT !.res = CTop.res])
       ELSE calls' = [calls EXCEPT ![Len(calls)].pc = "handled",
                                   ![Len(calls)].err =
                                      IF CTop.res = "notOk" THEN "EvaluationError" ELSE "OK"]
  /\ UNCHANGED <<evaluating, evalMode, handlers, returned>>
  /\ UNCHANGED <<threadVars, lookupVars, timedVars, valueVars>>

\* the host's result handler returns its error
HandlerReturns ==
  /\ CAt("handler", "entry")
  /\ \E e \in {"OK", "HandlerError"} :
       calls' = [CPop EXCEPT ![Len(calls) - 1].err = e]
  /\ UNCHANGED <<evaluating, evalMode, handlers, returned>>
  /\ UNCHANGED <<threadVars, lookupVars, timedVars, valueVars>>

\* triggerEvaluation() that returns without clearing evaluating (a variant
\* of the code, to show that a later evaluation depends on the clearing)
GuardKept(c) == evaluating

\* triggerEvaluation(): evaluating = false
GuardCleared(c) == [evaluating EXCEPT ![c] = FALSE]

\* triggerEvaluation(): evaluating = false; return err
TriggerReturn ==
  /\ CAt("triggerEvaluation", "handled")
  /\ CTop.err # "none"
  /\ evaluating' = GuardCleared(CTop.ctx)
  /\ returned' = <<CTop.ctx, CTop.err>>
  /\ calls' = CPop
  /\ UNCHANGED <<evalMode, handlers>>
  /\ UNCHANGED <<threadVars, lookupVars, timedVars, valueVars>>

NextTrigger ==
  \/ SetEvaluationResultHandler
  \/ HostTrigger
  \/ TriggerEvaluation
  \/ EvaluateNow
  \/ ExpressionLookup
  \/ LookupReturns
  \/ ExpressionDone
  \/ TriggerResult
  \/ HandlerReturns
  \/ TriggerReturn

\* the contexts of the expression evaluations, with no script thread started
InitTrigger ==
  /\ ThreadsInit /\ timing = <<0, Infinite>>
  /\ TriggerInit /\ LookupInit /\ TimedInit /\ ValuesInit

SpecTrigger == InitTrigger /\ [][NextTrigger]_vars

\* the activations of triggerEvaluation() of context c that are past the test
InProgress(c) ==
  { i \in 1..Len(calls) :
      calls[i].proc = "triggerEvaluation" /\ calls[i].ctx = c /\ calls[i].pc # "entry" }

\* the activations of function p for context c
CallsOf(p, c) == { i \in 1..Len(calls) : calls[i].proc = p /\ calls[i].ctx = c }

\* at most one evaluation of a context, and one call of its handler, at a time
NestingDepth ==
  \A c \in Ctxs :
    /\ Cardinality(InProgress(c)) <= 1
    /\ Cardinality(CallsOf("evaluateNow", c)) <= 1
    /\ Cardinality(CallsOf("handler", c)) <= 1

\* triggerEvaluation() has been called for a context an earlier
\* triggerEvaluation() of which is in progress
NestedTrigger == CAt("triggerEvaluation", "entry") /\ InProgress(CTop.ctx) # {}

\* the nested call returns CyclicReference; it has not evaluated and has not
\* called the handler
NestedTriggerRejected ==
  (NestedTrigger /\ calls' # calls) =>
     /\ calls' = CPop
     /\ returned' = <<CTop.ctx, "CyclicReference">>
     /\ UNCHANGED <<evaluating, evalMode>>

\* C2: a triggerEvaluation() called for a context while an earlier
\* triggerEvaluation() of that context is in progress returns a
\* CyclicReference error without evaluating the expression and without
\* calling the result handler; the nesting depth of the evaluations of one
\* context never exceeds 1.
C2_CyclicReference == [](NestingDepth) /\ [][NestedTriggerRejected]_vars

\* C2, reachability: a triggerEvaluation() called from the result handler of
\* its own context has returned CyclicReference
C2_Witness ==
  /\ CAt("handler", "entry")
  /\ returned = <<CTop.ctx, "CyclicReference">>
  /\ evaluating[CTop.ctx]

\* triggerEvaluation() is called for a context no triggerEvaluation() of
\* which is in progress, and takes its step
IndependentTrigger ==
  CAt("triggerEvaluation", "entry") /\ InProgress(CTop.ctx) = {} /\ calls' # calls

\* C39: evaluating is set exactly while a triggerEvaluation() of the context
\* is in progress (past its test, not yet returned): a nested call that is
\* rejected leaves it set, the return of the outermost call clears it
\* whatever the result, and a triggerEvaluation() called when none is in
\* progress is never rejected as cyclic: it sets the guard and evaluates.
C39_GuardWhileEvaluating ==
  /\ [](\A c \in Ctxs : evaluating[c] <=> InProgress(c) # {})
  /\ [][IndependentTrigger =>
          /\ returned' = returned
          /\ evaluating'[CTop.ctx]
          /\ calls'[Len(calls')].proc = "evaluateNow"]_vars

\* C39, reachability: a triggerEvaluation() of a context has returned the
\* error of its result handler, and a later triggerEvaluation() of the same
\* context, called by the host's main loop, is evaluating
C39_Witness ==
  /\ Len(calls) = 2
  /\ CAt("evaluateNow", "entry")
  /\ returned = <<CTop.ctx, "HandlerError">>
  /\ evaluating[CTop.ctx]

\* ======================================================================
\* Name lookup: ScriptCodeContext and ScriptMainContext (scripting.cpp)
\* ======================================================================

\* the type requirements a caller passes (none, a value, something to call)
ReqChoices == { {}, {"numeric"}, {"executable"} }

\* the lookups that can be registered: the built-in functions (their table
\* has a function f), and a class lookup with members of its own
BuiltInLookup == [ kind |-> "builtin", types |-> {"executable"}, names |-> {"f"} ]
ClassLookup ==
  [ kind |-> "class", types |-> {"executable", "constant", "numeric"}, names |-> {"x"} ]

\* BuiltInFunctionLookup::memberByNameFrom
BuiltInMemberByNameFrom(lk, aName, req) ==
  IF req \subseteq {"executable"} /\ aName \in lk.names
    THEN Obj("builtin", {"executable"})
    ELSE NoObj

\* memberByNameFrom of a lookup for the members of a class: a member that
\* meets the requirements
ClassMemberByNameFrom(lk, aName, req) ==
  IF aName \in lk.names /\ req \subseteq lk.types
    THEN Obj("lookup", lk.types)
    ELSE NoObj

\* thisObj()->memberByName
ThisMemberByName(aName, req) ==
  IF thisVars[aName] # NoObj /\ req \subseteq thisVars[aName].types
    THEN thisVars[aName]
    ELSE NoObj

\* ScriptCodeContext::memberByName of a context with the variables nv;
\* fromMain is what mainContext->memberByName() returns
CodeContextMemberByName(nv, hasMain, fromMain, aName, req) ==
  IF nv[aName] # NoObj /\ ~(req \subseteq nv[aName].types) THEN NoObj
  ELSE IF hasMain THEN fromMain
  ELSE nv[aName]

RECURSIVE LookupsMemberByName(_, _, _)
\* ScriptMainContext::memberByName, 3) members from registered lookups
LookupsMemberByName(lks, aName, req) ==
  IF lks = <<>> THEN NoObj
  ELSE LET lk == Head(lks)
           m == IF ~(req \subseteq lk.types) THEN NoObj
                ELSE IF lk.kind = "builtin" THEN BuiltInMemberByNameFrom(lk, aName, req)
                ELSE ClassMemberByNameFrom(lk, aName, req) IN
         IF m # NoObj THEN m ELSE LookupsMemberByName(Tail(lks), aName, req)

\* ScriptMainContext::memberByName that searches the local variables whatever
\* is asked for (a variant of the code, to show that the fall-through
\* depends on the test)
LocalsSearchedAlways(req) == TRUE

\* ScriptMainContext::memberByName: if ((aTypeRequirements & constant)==0)
LocalsSearched(req) == "constant" \notin req

\* ScriptMainContext::memberByName of a context with the variables nv, the
\* members tm of its thisObj() and the lookups lks; fromGlobals is what
\* globals()->memberByName() returns
MainContextMemberByName(nv, hasThis, lks, fromGlobals, aName, req) ==
  LET m1 == IF LocalsSearched(req)
              THEN CodeContextMemberByName(nv, FALSE, NoObj, aName, req) ELSE NoObj
      m2 == IF LocalsSearched(req) /\ hasThis
              THEN ThisMemberByName(aName, req) ELSE NoObj
      m3 == LookupsMemberByName(lks, aName, req) IN
    IF m1 # NoObj THEN m1
    ELSE IF m2 # NoObj THEN m2
    ELSE IF m3 # NoObj THEN m3
    ELSE fromGlobals

\* memberByName of the scripting domain: a main context with the built-in
\* functions registered, without an object and without globals of its own
DomainMemberByName(aName, req) ==
  MainContextMemberByName(globalVars, FALSE, <<BuiltInLookup>>, NoObj, aName, req)

\* memberByName of the main context
MainMemberByName(aName, req) ==
  MainContextMemberByName(mainVars, TRUE, lookups,
                          DomainMemberByName(aName, req \cup {"executable"}), aName, req)

\* memberByName of the function's context, whose mainContext is the main context
InnerMemberByName(aName, req) ==
  CodeContextMemberByName(namedVars, TRUE,
                          MainMemberByName(aName, req \cup {"executable", "constant"}),
                          aName, req)

\* ScriptCodeContext::setMemberByName on variables nv
SetMemberByName(nv, aName, aMember, create) ==
  IF nv[aName] # NoObj \/ create THEN [nv EXCEPT ![aName] = aMember] ELSE nv

\* the error ScriptCodeContext::setMemberByName returns
SetMemberByNameErr(nv, aName, create) ==
  IF nv[aName] # NoObj \/ create THEN "OK" ELSE "NotFound"

\* the storage attributes setMemberByName() is called with
AttrChoices == {{}, {"create"}}

\* setMemberByName that creates the variable whatever the attributes are (a
\* variant of the code, to show that the error depends on the attribute)
CreateRequestedAlways(aStorageAttributes) == TRUE

\* ScriptCodeContext::setMemberByName: else if (aStorageAttributes & create)
CreateRequested(aStorageAttributes) == "create" \in aStorageAttributes

\* a script running in the function's context assigns a variable
SetLocal ==
  /\ \E n \in Names, ty \in TypeChoices, attrs \in AttrChoices :
       /\ namedVars' = SetMemberByName(namedVars, n, Obj("local", ty),
                                       CreateRequested(attrs))
       /\ setRes' = <<Obj("local", ty),
                      SetMemberByNameErr(namedVars, n, CreateRequested(attrs))>>
       /\ asked' = <<"set", n, attrs>>
       /\ found' = NoObj
  /\ UNCHANGED <<mainVars, globalVars, thisVars, lookups>>
  /\ UNCHANGED <<threadVars, triggerVars, timedVars, valueVars>>

\* a script running in the main context assigns a variable of its own
SetMainLocal ==
  /\ \E n \in Names, ty \in TypeChoices, create \in BOOLEAN :
       mainVars' = SetMemberByName(mainVars, n, Obj("mainlocal", ty), create)
  /\ UNCHANGED <<namedVars, globalVars, thisVars, lookups, asked, found, setRes>>
  /\ UNCHANGED <<threadVars, triggerVars, timedVars, valueVars>>

\* a script stores the global variable x: globals()->setMemberByName
SetGlobal ==
  /\ \E ty \in TypeChoices :
       globalVars' = SetMemberByName(globalVars, "x", Obj("global", ty), TRUE)
  /\ UNCHANGED <<namedVars, mainVars, thisVars, lookups, asked, found, setRes>>
  /\ UNCHANGED <<threadVars, triggerVars, timedVars, valueVars>>

\* the object the main context executes gets a member x
SetThisMember ==
  /\ \E ty \in TypeChoices :
       thisVars' = [thisVars EXCEPT !["x"] = Obj("this", ty)]
  /\ UNCHANGED <<namedVars, mainVars, globalVars, lookups, asked, found, setRes>>
  /\ UNCHANGED <<threadVars, triggerVars, timedVars, valueVars>>

\* ScriptCodeContext::clearVars of the function's context; no call of
\* memberByName() or setMemberByName() is the last one any more
ClearVars ==
  /\ namedVars' = NoVars
  /\ asked' = <<"none", "x", {}>>
  /\ found' = NoObj
  /\ setRes' = <<NoObj, "none">>
  /\ UNCHANGED <<mainVars, globalVars, thisVars, lookups>>
  /\ UNCHANGED <<threadVars, triggerVars, timedVars, valueVars>>

\* ScriptMainContext::registerMemberLookup
RegisterMemberLookup ==
  /\ Len(lookups) < MaxLookups
  /\ \E lk \in {BuiltInLookup, ClassLookup} : lookups' = <<lk>> \o lookups
  /\ UNCHANGED <<namedVars, mainVars, globalVars, thisVars, asked, found, setRes>>
  /\ UNCHANGED <<threadVars, triggerVars, timedVars, valueVars>>

\* memberByName() of the function's context is called
AskInner ==
  /\ \E n \in Names, req \in ReqChoices :
       /\ asked' = <<"inner", n, req>>
       /\ found' = InnerMemberByName(n, req)
  /\ setRes' = <<NoObj, "none">>
  /\ UNCHANGED <<namedVars, mainVars, globalVars, thisVars, lookups>>
  /\ UNCHANGED <<threadVars, triggerVars, timedVars, valueVars>>

\* memberByName() of the main context is called
AskMain ==
  /\ \E n \in Names, req \in ReqChoices :
       /\ asked' = <<"main", n, req>>
       /\ found' = MainMemberByName(n, req)
  /\ setRes' = <<NoObj, "none">>
  /\ UNCHANGED <<namedVars, mainVars, globalVars, thisVars, lookups>>
  /\ UNCHANGED <<threadVars, triggerVars, timedVars, valueVars>>

NextLookup ==
  \/ SetLocal
  \/ SetMainLocal
  \/ SetGlobal
  \/ SetThisMember
  \/ ClearVars
  \/ RegisterMemberLookup
  \/ AskInner
  \/ AskMain

\* the contexts of the name lookup, with no script thread started and no
\* expression evaluated
InitLookup ==
  /\ ThreadsInit /\ timing = <<0, Infinite>>
  /\ TriggerInit /\ LookupInit /\ TimedInit /\ ValuesInit

SpecLookup == InitLookup /\ [][NextLookup]_vars

\* C10: what memberByName() of a function's context returns is never a local
\* variable of the main context (nor a member of the object the main context
\* executes); an object that comes from the main context is executable or
\* constant.
C10_NoMainLocals ==
  asked[1] = "inner" =>
    /\ found.origin \notin {"mainlocal", "this"}
    /\ found.origin \notin {"none", "local"} =>
         found.types \cap {"executable", "constant"} # {}

\* C10, reachability: the function's context has been asked for a name that
\* is a local variable of the main context and meets the requirements, and
\* has no variable of that name itself
C10_Witness ==
  /\ asked[1] = "inner"
  /\ namedVars[asked[2]] = NoObj
  /\ mainVars[asked[2]] # NoObj
  /\ asked[3] \cup {"executable", "constant"} \subseteq mainVars[asked[2]].types
  /\ MainMemberByName(asked[2], asked[3]).origin = "mainlocal"
  /\ found = InnerMemberByName(asked[2], asked[3])

\* a step that is a call of setMemberByName() of the function's context
SetLocalStep ==
  /\ asked'[1] = "set"
  /\ asked' # asked \/ namedVars' # namedVars \/ setRes' # setRes

\* C11: assigning to a name that is not a local variable without the create
\* attribute returns NotFound and leaves the variables unchanged; with the
\* create attribute the variable is added; an existing variable gets the new
\* value with or without the attribute. No other variable is touched.
C11_AssignUndeclared ==
  [][SetLocalStep =>
       LET n == asked'[2]
           create == "create" \in asked'[3] IN
         /\ (namedVars[n] = NoObj /\ ~create) =>
               setRes'[2] = "NotFound" /\ namedVars' = namedVars
         /\ (namedVars[n] = NoObj /\ create) =>
               setRes'[2] = "OK" /\ namedVars'[n] = setRes'[1]
         /\ namedVars[n] # NoObj =>
               setRes'[2] = "OK" /\ namedVars'[n] = setRes'[1]
         /\ setRes'[1] # NoObj
         /\ \A o \in Names \ {n} : namedVars'[o] = namedVars[o]]_vars

\* C11, reachability: an assignment without the create attribute to a name
\* that is not a variable has returned NotFound, while another variable exists
C11_Witness ==
  /\ asked[1] = "set"
  /\ "create" \notin asked[3]
  /\ namedVars[asked[2]] = NoObj
  /\ setRes[2] = "NotFound"
  /\ \E o \in Names : namedVars[o] # NoObj

\* C30: memberByName() of a function's context, which has a main context,
\* returns the local variable of the name asked for whenever there is one
\* that meets the type requirements (the main context is consulted only
\* when there is no such variable).
C30_LocalVariableFound ==
  (/\ asked[1] = "inner"
   /\ namedVars[asked[2]] # NoObj
   /\ asked[3] \subseteq namedVars[asked[2]].types) =>
     found = namedVars[asked[2]]

\* ------------------------------------------------ timed evaluation context
\* TimedEvaluationContext::FrozenResult::frozen
frozen(e, aNow) ==
  e.frozenUntil = Infinite \/ (e.frozenUntil # Never /\ e.frozenUntil > aNow)

\* TimedEvaluationContext::getFrozen for a value at position pos: the pointer
\* returned (0: NULL), the value passed back and the table
getFrozen(frs, pos, aResult, aNow) ==
  IF frs[pos].exists
    THEN [frozenP |-> pos, aResult |-> frs[pos].frozenResult,
          frs |-> IF frozen(frs[pos], aNow) THEN frs
                  ELSE [frs EXCEPT ![pos].frozenUntil = Never]]
    ELSE [frozenP |-> 0, aResult |-> aResult, frs |-> frs]

\* newFreeze that updates an existing entry whatever its state is (a variant
\* of the code, to show that the update depends on the test)
FreezeUpdatedAlways(e, aFreezeUntil, aUpdate, aNow) == TRUE

\* TimedEvaluationContext::newFreeze:
\* else if (!aExistingFreeze->frozen() || aUpdate || aFreezeUntil==Never)
FreezeUpdated(e, aFreezeUntil, aUpdate, aNow) ==
  ~frozen(e, aNow) \/ aUpdate \/ aFreezeUntil = Never

\* TimedEvaluationContext::newFreeze of a value at position pos
newFreeze(frs, aExistingFreeze, pos, aNewResult, aFreezeUntil, aUpdate, aNow) ==
  IF aExistingFreeze = 0
    THEN [frs EXCEPT ![pos] = FrozenResult(aNewResult, aFreezeUntil)]
  ELSE IF FreezeUpdated(frs[aExistingFreeze], aFreezeUntil, aUpdate, aNow)
    THEN [frs EXCEPT ![aExistingFreeze] = FrozenResult(aNewResult, aFreezeUntil)]
  ELSE frs

\* updateNextEval that takes the time passed last (a variant of the code, to
\* show that the earliest time is what is kept)
updateNextEvalLast(ne, aLatestEval) ==
  IF aLatestEval = Never \/ aLatestEval = Infinite THEN ne ELSE aLatestEval

\* TimedEvaluationContext::updateNextEval: the new nextEvaluation
updateNextEval(ne, aLatestEval) ==
  IF aLatestEval = Never \/ aLatestEval = Infinite THEN ne
  ELSE IF ne = Never \/ aLatestEval < ne THEN aLatestEval
  ELSE ne

\* the sweep of evaluateNow() that erases no entry (a variant of the code)
ExpiredNever(e) == FALSE

\* TimedEvaluationContext::evaluateNow: if (pos->second.frozenUntil==Never)
Expired(e) == e.exists /\ e.frozenUntil = Never

\* TimedEvaluationContext::evaluateNow, the loop over frozenResults: the table
Sweep(frs) == [p \in Positions |-> IF Expired(frs[p]) THEN NoFreeze ELSE frs[p]]

RECURSIVE SweepNextEval(_, _, _)
\* and nextEvaluation after the entries from position p on
SweepNextEval(frs, ne, p) ==
  IF p \notin Positions THEN ne
  ELSE SweepNextEval(frs,
                     IF frs[p].exists /\ ~Expired(frs[p])
                       THEN updateNextEval(ne, frs[p].frozenUntil) ELSE ne,
                     p + 1)

\* MLTicket::cancel that leaves the timer in the list (a variant of the code)
cancelNothing(tm, aTicketNo) == tm

\* MainLoop::cancelExecutionTicket: the timers left
cancelExecutionTicket(tm, aTicketNo) == { x \in tm : x.ticketNo # aTicketNo }

\* MainLoop::executeTicketOnceAt: <<timers, ticketNo of the ticket>>; the
\* number ++ticketNo gives is one no timer has
executeTicketOnceAt(tm, aTicket, aExecutionTime) ==
  LET left == cancelExecutionTicket(tm, aTicket)
      no == CHOOSE n \in 1..(Cardinality(left) + 1) :
              \A x \in left : x.ticketNo # n IN
    <<left \cup {[ticketNo |-> no, executionTime |-> aExecutionTime]}, no>>

\* TimedEvaluationContext::scheduleReEvaluation: <<timers, ticketNo>>
scheduleReEvaluation(tm, aTicket, aAtTime) ==
  IF aAtTime # Never THEN executeTicketOnceAt(tm, aTicket, aAtTime)
  ELSE <<cancelExecutionTicket(tm, aTicket), 0>>

\* time passes between two evaluations
TimedTick ==
  /\ ~inEvaluateNow
  /\ mlNow < Day + IsTimeArg + MaxClock
  /\ mlNow' = mlNow + 1
  /\ lastCall' = NoCall
  /\ UNCHANGED <<expression, frozenResults, nextEvaluation, reEvaluationTicket, timers,
                 timedMode, inEvaluateNow, schedReEval, evaluated, requested, sweptOut>>
  /\ UNCHANGED baseVars

\* setExpression that reports a change whatever the text is (a variant of
\* the code)
ExpressionDiffersAlways(aExpression, current) == TRUE

\* EvaluationContext::setExpression: if (aExpression!=expression)
ExpressionDiffers(aExpression, current) == aExpression # current

\* EvaluationContext::setExpression, with TimedEvaluationContext::releaseState
\* (lastCall.seen: the number of frozen results released)
SetExpression ==
  /\ ~inEvaluateNow
  /\ \E i \in DOMAIN Exprs :
       IF ExpressionDiffers(Exprs[i], expression)
         THEN /\ frozenResults' = [p \in Positions |-> NoFreeze]
              /\ expression' = Exprs[i]
              /\ sweptOut' = {}
              /\ lastCall' = TimedCall("setExpression", 0, i, FALSE,
                         Cardinality({ p \in Positions : frozenResults[p].exists }), 1)
         ELSE /\ lastCall' = TimedCall("setExpression", 0, i, FALSE, 0, 0)
              /\ UNCHANGED <<frozenResults, expression, sweptOut>>
  /\ UNCHANGED <<nextEvaluation, reEvaluationTicket, timers, mlNow, timedMode,
                 inEvaluateNow, schedReEval, evaluated, requested>>
  /\ UNCHANGED baseVars

\* TimedEvaluationContext::evaluateNow up to the evaluation of the expression
EvaluateNowBegin(aEvalMode, aScheduleReEval) ==
  /\ ~inEvaluateNow
  /\ nextEvaluation' = Never
  /\ timedMode' = IF aEvalMode # "current" THEN aEvalMode ELSE timedMode
  /\ inEvaluateNow' = TRUE
  /\ schedReEval' = aScheduleReEval
  /\ evaluated' = {}
  /\ requested' = {}
  /\ lastCall' = NoCall
  /\ UNCHANGED <<expression, frozenResults, reEvaluationTicket, mlNow, sweptOut>>
  /\ UNCHANGED baseVars

\* the host evaluates the expression
HostEvaluateNow ==
  /\ \E m \in TimedModes, sched \in BOOLEAN : EvaluateNowBegin(m, sched)
  /\ UNCHANGED timers

\* MainLoop::checkTimers runs the timer of the context, which calls
\* timedEvaluationHandler(): triggerEvaluation(evalmode_timed)
TimerFires ==
  /\ \E x \in timers :
       /\ x.executionTime <= mlNow
       /\ timers' = timers \ {x}
  /\ EvaluateNowBegin("timed", TRUE)

\* a function of the expression at position p is evaluated next: functions
\* are not called in a syntax check, and are met from left to right
FunctionCalled(p, aFunctionName) ==
  /\ inEvaluateNow
  /\ timedMode # "noexec"
  /\ expression[p] = aFunctionName
  /\ \A q \in evaluated : q < p

\* TimedEvaluationContext::evaluateFunction, testlater(seconds, test, retrigger)
testlater ==
  \E p \in Positions, s0 \in SecsChoices, retrigger \in BOOLEAN :
    /\ FunctionCalled(p, "testlater")
    /\ LET secs == IF retrigger /\ s0 < MinRetrigger THEN MinRetrigger ELSE s0
           g == getFrozen(frozenResults, p, secs, mlNow)
           frs == IF timedMode # "timed"
                    THEN IF timedMode # "initial"
                           THEN newFreeze(g.frs, g.frozenP, p, secs, mlNow + secs,
                                          TRUE, mlNow)
                           ELSE g.frs
                    ELSE IF g.frozenP # 0 /\ retrigger
                           THEN newFreeze(g.frs, g.frozenP, p, secs, mlNow + secs,
                                          FALSE, mlNow)
                           ELSE g.frs
           frozenP == IF timedMode # "timed" THEN 0 ELSE g.frozenP
           ret == IF frozenP # 0 /\ ~frozen(frs[frozenP], mlNow) THEN 1 ELSE 0 IN
         /\ frozenResults' = frs
         /\ lastCall' = TimedCall("testlater", p, IF retrigger THEN 1 ELSE 0,
                                  g.frozenP # 0, g.aResult, ret)
         /\ sweptOut' = { q \in sweptOut : ~frs[q].exists }
    /\ evaluated' = evaluated \cup {p}
    /\ UNCHANGED <<expression, nextEvaluation, reEvaluationTicket, timers, mlNow,
                   timedMode, inEvaluateNow, schedReEval, requested>>
    /\ UNCHANGED baseVars

\* is_time() without a tolerance window (a variant of the code)
InToleranceNever(met, daySecs, secs) == FALSE

\* evaluateFunction, is_time: met && daySecs<secs.numValue()+IS_TIME_TOLERANCE_SECONDS
InTolerance(met, daySecs, secs) == met /\ daySecs < secs + IsTimeTolerance

\* TimedEvaluationContext::evaluateFunction, is_time(seconds of the day)
\* (lastCall.arg: 1 if the entry found was still frozen)
is_time ==
  \E p \in Positions :
    /\ FunctionCalled(p, "is_time")
    /\ LET newSecs == IsTimeArg
           g == getFrozen(frozenResults, p, newSecs, mlNow)
           secs == g.aResult
           daySecs == mlNow % Day
           midnight == mlNow - daySecs
           met == daySecs >= secs
           frs == IF InTolerance(met, daySecs, secs)
                    THEN newFreeze(g.frs, g.frozenP, p, secs,
                                   midnight + secs + IsTimeTolerance, FALSE, mlNow)
                    ELSE newFreeze(g.frs, g.frozenP, p, newSecs,
                                   midnight + newSecs + (IF met THEN Day ELSE 0),
                                   FALSE, mlNow)
           res == IF InTolerance(met, daySecs, secs) THEN met ELSE FALSE IN
         /\ frozenResults' = frs
         /\ lastCall' = TimedCall("is_time", p,
                                  IF frozen(frozenResults[p], mlNow) THEN 1 ELSE 0,
                                  g.frozenP # 0, g.aResult, IF res THEN 1 ELSE 0)
         /\ sweptOut' = { q \in sweptOut : ~frs[q].exists }
    /\ evaluated' = evaluated \cup {p}
    /\ UNCHANGED <<expression, nextEvaluation, reEvaluationTicket, timers, mlNow,
                   timedMode, inEvaluateNow, schedReEval, requested>>
    /\ UNCHANGED baseVars

\* a function the host has added to the context asks for a re-evaluation
\* with updateNextEval() while the expression is evaluated
HostUpdateNextEval ==
  /\ inEvaluateNow
  /\ timedMode # "noexec"
  /\ Cardinality(requested) < 2
  /\ \E t \in {Never, Infinite, mlNow + 1, mlNow + 2} :
       /\ nextEvaluation' = updateNextEval(nextEvaluation, t)
       /\ requested' = requested \cup {t}
       /\ lastCall' = TimedCall("updateNextEval", 0, t, FALSE, 0, 0)
  /\ UNCHANGED <<expression, frozenResults, reEvaluationTicket, timers, mlNow,
                 timedMode, inEvaluateNow, schedReEval, evaluated, sweptOut>>
  /\ UNCHANGED baseVars

\* TimedEvaluationContext::evaluateNow after the evaluation of the expression
EvaluateNowEnd ==
  /\ inEvaluateNow
  /\ IF timedMode # "noexec"
       THEN LET ne == SweepNextEval(frozenResults, nextEvaluation, 1)
                sc == scheduleReEvaluation(timers, reEvaluationTicket, ne) IN
              /\ frozenResults' = Sweep(frozenResults)
              /\ sweptOut' = sweptOut \cup { p \in Positions : Expired(frozenResults[p]) }
              /\ nextEvaluation' = ne
              /\ IF schedReEval
                   THEN timers' = sc[1] /\ reEvaluationTicket' = sc[2]
                   ELSE UNCHANGED <<timers, reEvaluationTicket>>
       ELSE UNCHANGED <<frozenResults, sweptOut, nextEvaluation, timers,
                        reEvaluationTicket>>
  /\ inEvaluateNow' = FALSE
  /\ evaluated' = {}
  /\ requested' = {}
  /\ schedReEval' = FALSE
  /\ lastCall' = TimedCall("evaluateNow", 0, 0, FALSE, 0, 0)
  /\ UNCHANGED <<expression, mlNow, timedMode>>
  /\ UNCHANGED baseVars

\* the host calls scheduleReEvaluation() between two evaluations
\* (lastCall.hit: a timer for another time was pending)
HostScheduleReEvaluation ==
  /\ ~inEvaluateNow
  /\ \E t \in {Never, mlNow + 1} :
       LET sc == scheduleReEvaluation(timers, reEvaluationTicket, t) IN
         /\ nextEvaluation' = t
         /\ timers' = sc[1]
         /\ reEvaluationTicket' = sc[2]
         /\ lastCall' = TimedCall("scheduleReEvaluation", 0, t,
                                  \E x \in timers : x.executionTime # t, 0, 0)
  /\ UNCHANGED <<expression, frozenResults, mlNow, timedMode, inEvaluateNow,
                 schedReEval, evaluated, requested, sweptOut>>
  /\ UNCHANGED baseVars

NextTimed ==
  \/ TimedTick
  \/ SetExpression
  \/ HostEvaluateNow
  \/ TimerFires
  \/ testlater
  \/ is_time
  \/ HostUpdateNextEval
  \/ EvaluateNowEnd
  \/ HostScheduleReEvaluation

\* a timed evaluation context, with no script thread started, no expression
\* triggered and no name looked up
InitTimed ==
  /\ ThreadsInit /\ timing = <<0, Infinite>>
  /\ TriggerInit /\ LookupInit /\ TimedInit /\ ValuesInit

SpecTimed == InitTimed /\ [][NextTimed]_vars

\* C12: setExpression() returns true exactly when the text passed differs
\* from the current one; when it returns true no frozen result is left and
\* the text is the new one, when it returns false the frozen results and the
\* text are unchanged.
C12_SetCodeReleases ==
  [][lastCall'.op = "setExpression" =>
       LET aExpression == Exprs[lastCall'.arg] IN
         /\ lastCall'.ret = 1 <=> aExpression # expression
         /\ lastCall'.ret = 1 =>
              /\ \A p \in Positions : ~frozenResults'[p].exists
              /\ expression' = aExpression
         /\ lastCall'.ret # 1 =>
              /\ frozenResults' = frozenResults
              /\ expression' = expression]_vars

\* C12, reachability: setExpression() has just returned true for a context
\* that had two frozen results when it was called
C12_Witness ==
  /\ lastCall.op = "setExpression"
  /\ lastCall.ret = 1
  /\ lastCall.seen = Cardinality(Positions)
  /\ \A p \in Positions : ~frozenResults[p].exists

\* what newFreeze() does to the table frs when called for position p with the
\* pointer getFrozen() returns for it, as C13 states it
NewFreezeAsStated(frs, p, v, until, aUpdate) ==
  LET e == frs[p]
      r == newFreeze(frs, IF e.exists THEN p ELSE 0, p, v, until, aUpdate, mlNow) IN
    /\ ~e.exists => r[p] = FrozenResult(v, until)
    /\ (e.exists /\ (~frozen(e, mlNow) \/ aUpdate \/ until = Never)) =>
         r[p].exists /\ r[p].frozenResult = v /\ r[p].frozenUntil = until
    /\ (e.exists /\ frozen(e, mlNow) /\ ~aUpdate /\ until # Never) => r[p] = e
    /\ \A q \in Positions \ {p} : r[q] = frs[q]

\* C13: newFreeze() creates an entry when there is none for the position; it
\* changes the value and the deadline of an existing entry only if the entry is
\* not frozen any more, or the update flag is set, or the new deadline is Never;
\* otherwise it leaves the entry as it is. (For every table the context
\* reaches, before and after getFrozen() has marked the entry, and every
\* value, deadline and flag.)
C13_NewFreeze ==
  \A p \in Positions, v \in SecsChoices, aUpdate \in BOOLEAN,
     until \in {Never, Infinite, mlNow + 1} :
    /\ NewFreezeAsStated(frozenResults, p, v, until, aUpdate)
    /\ NewFreezeAsStated(getFrozen(frozenResults, p, v, mlNow).frs, p, v, until, aUpdate)

\* C13, reachability: testlater() in a timed evaluation has called newFreeze()
\* without the update flag for an entry that is still frozen, with another
\* value than the frozen one, and the entry has kept its value
C13_Witness ==
  /\ inEvaluateNow
  /\ timedMode = "timed"
  /\ lastCall.op = "testlater"
  /\ lastCall.hit
  /\ lastCall.arg = 1
  /\ frozen(frozenResults[lastCall.pos], mlNow)
  /\ frozenResults[lastCall.pos].frozenResult # MinRetrigger

\* a step in which a function of the expression is evaluated
FunctionStep == lastCall'.op \in {"testlater", "is_time"} /\ evaluated' # evaluated

\* C14: an entry that getFrozen() has marked expired (deadline Never) and that
\* newFreeze() has not armed again is erased by the sweep at the end of that
\* evaluation; the position then has no entry until a function evaluated at
\* that position freezes a result again, and getFrozen() for a position
\* without entry returns no frozen result and passes back the value it was
\* given.
C14_ExpiredIsAbsent ==
  /\ [](\A p \in sweptOut : ~frozenResults[p].exists)
  /\ [][/\ (lastCall'.op = "evaluateNow" /\ timedMode # "noexec") =>
            \A p \in Positions :
              (frozenResults[p].exists /\ frozenResults[p].frozenUntil = Never) =>
                ~frozenResults'[p].exists /\ p \in sweptOut'
        /\ \A p \in Positions :
             (~frozenResults[p].exists /\ frozenResults'[p].exists) =>
               FunctionStep /\ lastCall'.pos = p
        /\ (FunctionStep /\ ~frozenResults[lastCall'.pos].exists) =>
             /\ ~lastCall'.hit
             /\ lastCall'.op = "is_time" => lastCall'.seen = IsTimeArg
             /\ lastCall'.op = "testlater" =>
                  lastCall'.seen = frozenResults'[lastCall'.pos].frozenResult
                  \/ ~frozenResults'[lastCall'.pos].exists]_vars

\* C14, reachability: in a later evaluation testlater() has looked up a
\* position whose expired entry the sweep had erased, and got no frozen result
C14_Witness ==
  /\ inEvaluateNow
  /\ lastCall.op = "testlater"
  /\ lastCall.pos \in sweptOut
  /\ ~lastCall.hit

\* a step in which testlater() is evaluated
TestLaterStep == lastCall'.op = "testlater" /\ evaluated' # evaluated

\* C31: testlater() returns Null in every evaluation that is not timed, and
\* in a timed evaluation while the freeze of its position is running; in a
\* timed evaluation that finds the freeze expired it returns the value of
\* the test, and with retrigger set it also starts a new freeze period of
\* at least MIN_RETRIGGER_SECONDS.
C31_TestLaterResult ==
  [][TestLaterStep =>
       LET e == frozenResults[lastCall'.pos]
           retrigger == lastCall'.arg = 1 IN
         /\ timedMode # "timed" => lastCall'.ret = 0
         /\ (timedMode = "timed" /\ e.exists /\ frozen(e, mlNow)) => lastCall'.ret = 0
         /\ (timedMode = "timed" /\ e.exists /\ ~frozen(e, mlNow)) =>
              /\ lastCall'.ret = 1
              /\ retrigger =>
                   /\ frozenResults'[lastCall'.pos].exists
                   /\ frozenResults'[lastCall'.pos].frozenUntil >= mlNow + MinRetrigger]_vars

\* C15: at most one re-evaluation timer of the context is pending; after
\* scheduleReEvaluation() it is the one for the time passed in that call, and
\* after a call with Never none is pending.
C15_OneTimer ==
  /\ Cardinality(timers) <= 1
  /\ lastCall.op = "scheduleReEvaluation" =>
       IF lastCall.arg = Never THEN timers = {}
       ELSE timers = {[ticketNo |-> reEvaluationTicket, executionTime |-> lastCall.arg]}

\* C15, reachability: scheduleReEvaluation() has been called with a time
\* while a timer for another time was pending
C15_Witness ==
  /\ lastCall.op = "scheduleReEvaluation"
  /\ lastCall.arg # Never
  /\ lastCall.hit
  /\ timers # {}

\* the earliest of the times in S, Never if there is none
Earliest(S) ==
  IF S = {} THEN Never
  ELSE LET t == CHOOSE x \in S : \A y \in S : x <= y IN t

\* what the end of evaluateNow() must leave, as C16 states it: the timer is
\* armed for the earliest of the deadlines of the entries left and of the times
\* requested, Never and Infinite ignored; no timer if there is no such time
TimerAsStated ==
  LET S == ({ frozenResults'[p].frozenUntil : p \in { q \in Positions : frozenResults'[q].exists } }
            \cup requested) \ {Never, Infinite} IN
    IF S = {} THEN timers' = {}
    ELSE \E x \in timers' : timers' = {x} /\ x.executionTime = Earliest(S)
                            /\ x.ticketNo = reEvaluationTicket'

\* C16 as worded: after every evaluation with re-evaluation scheduling enabled,
\* whatever the evaluation mode is
C16_AsWorded ==
  [][(lastCall'.op = "evaluateNow" /\ schedReEval) => TimerAsStated]_vars

\* C16: after an evaluation with re-evaluation scheduling enabled, in a mode
\* other than noexec, the timer is armed for the earliest of the deadlines of
\* the frozen entries left after the sweep and the times requested with
\* updateNextEval() during the evaluation, Never and Infinite ignored; if there
\* is no such time no timer is pending.
C16_EarliestArmed ==
  [][(lastCall'.op = "evaluateNow" /\ schedReEval /\ timedMode # "noexec") =>
       TimerAsStated]_vars

\* C16, reachability: an evaluation has ended that armed the timer for a time
\* requested with updateNextEval(), earlier than the deadline of a frozen
\* entry that is left
C16_Witness ==
  /\ lastCall.op = "evaluateNow"
  /\ timedMode # "noexec"
  /\ \E x \in timers, p \in Positions :
       /\ frozenResults[p].exists
       /\ frozenResults[p].frozenUntil > x.executionTime
       /\ x.executionTime = nextEvaluation
       /\ x.executionTime > mlNow

ArgValues ==
  { Num(42), Null, Err("ExpressionError", "Syntax"), Err("ExpressionError", "NotFound"),
    Err("ScriptError", "Null") }

\* ExpressionValue::notOk
notOk(v) == v.kind = "error"

\* evaluateTerm that passes every argument on (a variant of the code)
ArgumentEndsCallNever(arg) == FALSE

\* evaluateTerm: if (arg.notOk() && !arg.err->isError("ExpressionError", ExpressionError::Null))
ArgumentEndsCall(arg) ==
  notOk(arg) /\ ~(arg.domain = "ExpressionError" /\ arg.code = "Null")

\* evaluateTerm meets a function call with numArgs argument expressions
CallStart ==
  /\ fcall.pc = "idle"
  /\ \E n \in 0..MaxArgs, noexec \in BOOLEAN :
       fcall' = [pc |-> "args", numArgs |-> n, evals |-> <<>>, args |-> <<>>,
                 noexec |-> noexec, invoked |-> FALSE, res |-> Null]
  /\ UNCHANGED <<argCheck, cmp>>
  /\ UNCHANGED contextVars

\* evaluateTerm, the loop collecting arguments: the next argument expression
\* is evaluated (evals: what the argument expressions evaluated so far gave)
CallArgument ==
  /\ fcall.pc = "args"
  /\ Len(fcall.args) < fcall.numArgs
  /\ \E arg \in ArgValues :
       IF ArgumentEndsCall(arg)
         THEN fcall' = [fcall EXCEPT !.pc = "done", !.res = arg,
                                     !.evals = Append(@, arg)]
         ELSE fcall' = [fcall EXCEPT !.args = Append(@, arg),
                                     !.evals = Append(@, arg)]
  /\ UNCHANGED <<argCheck, cmp>>
  /\ UNCHANGED contextVars

\* evaluateTerm after the closing parenthesis: run function
CallFunction ==
  /\ fcall.pc = "args"
  /\ Len(fcall.args) = fcall.numArgs
  /\ IF ~fcall.noexec
       THEN \E fnres \in {Num(42), Null, Err("ExpressionError", "NotFound")} :
              fcall' = [fcall EXCEPT !.pc = "done", !.invoked = TRUE, !.res = fnres]
       ELSE fcall' = [fcall EXCEPT !.pc = "done"]
  /\ UNCHANGED <<argCheck, cmp>>
  /\ UNCHANGED contextVars

\* evaluateTerm has returned
CallReturn ==
  /\ fcall.pc = "done"
  /\ fcall' = [pc |-> "idle", numArgs |-> 0, evals |-> <<>>, args |-> <<>>,
               noexec |-> FALSE, invoked |-> FALSE, res |-> Null]
  /\ UNCHANGED <<argCheck, cmp>>
  /\ UNCHANGED contextVars

NextCall == CallStart \/ CallArgument \/ CallFunction \/ CallReturn

\* no value used yet, no script thread started, no expression evaluated and
\* no name looked up
InitValues == InitTimed

SpecCall == InitValues /\ [][NextCall]_vars

\* an error other than Null
OtherError(v) == v.kind = "error" /\ v # Null

\* C18: the arguments of a call are evaluated from left to right; Null is
\* passed on to the function; the first argument that evaluates to another
\* error ends the call: that error is the result, no later argument is
\* evaluated and the function is not invoked.
C18_ArgumentErrorEndsCall ==
  /\ Len(fcall.evals) <= fcall.numArgs
  /\ \A i \in 1..Len(fcall.evals) :
       OtherError(fcall.evals[i]) =>
         /\ i = Len(fcall.evals)
         /\ fcall.pc = "done"
         /\ fcall.res = fcall.evals[i]
         /\ ~fcall.invoked
  /\ (\A i \in 1..Len(fcall.evals) : ~OtherError(fcall.evals[i])) =>
       fcall.args = fcall.evals
  /\ fcall.invoked =>
       /\ fcall.args = fcall.evals
       /\ Len(fcall.args) = fcall.numArgs

\* C18, reachability: the first argument of three was Null, the second a
\* syntax error, which has ended the call
C18_Witness ==
  /\ fcall.pc = "done"
  /\ fcall.numArgs = MaxArgs
  /\ fcall.evals = <<Null, Err("ExpressionError", "Syntax")>>
  /\ fcall.res = Err("ExpressionError", "Syntax")
  /\ ~fcall.invoked

\* ------------------------------------------------ check of call arguments
\* TypeInfo: the scalar and the structured types, and the attributes of an
\* argument descriptor
scalarMask == {"numeric", "text"}
structuredMask == {"object"}
\* the ArgumentDescriptors of the functions called
DescriptorChoices ==
  { {"numeric"}, {"numeric", "optional"}, {"text", "undefres"},
    {"numeric", "exacttype"}, {"numeric", "exacttype", "undefres"},
    {"object"}, {"object", "undefres"}, {"numeric", "text", "multiple"} }
\* getTypeInfo() of the arguments passed
ArgTypeChoices == { {"numeric"}, {"text"}, {"object"} }
\* no argument: aArgument is a NULL pointer
NoArgument == {}

\* BuiltinFunctionObj::argumentInfo for the descriptors d (a sequence; the
\* index counts from 0): <<found, typeInfo>>
argumentInfo(d, aIndex) ==
  IF aIndex < Len(d) THEN <<TRUE, d[aIndex + 1]>>
  ELSE IF Len(d) > 0 /\ "multiple" \in d[Len(d)] THEN <<TRUE, d[Len(d)]>>
  ELSE <<FALSE, {}>>

\* ExecutionContext::checkAndSetArgument from "now check argument" on, for
\* an argument of type argInfo: the error returned
checkArgumentType(required, argInfo) ==
  IF required \cap structuredMask # {} /\ argInfo \cap required \cap structuredMask = {}
    THEN IF "undefres" \in required THEN "Invalid" ELSE "Syntax"
  ELSE IF /\ required \cap scalarMask # {}
          /\ argInfo \cap required \cap scalarMask = {}
          /\ (required \cap structuredMask # {} \/ "exacttype" \in required)
    THEN IF "undefres" \in required THEN "Invalid" ELSE "Syntax"
  ELSE "OK"

\* ExecutionContext::checkAndSetArgument: the outcomes the call can have.
\* Without an argument for an optional descriptor the code goes on to
\* aArgument->getTypeInfo() with the NULL pointer, which is undefined: the
\* process dies, or the check goes on with whatever type is read
checkAndSetArgument(d, aIndex, aArgument) ==
  LET info == argumentInfo(d, aIndex)
      required == info[2] IN
    IF ~info[1] THEN {"Syntax"}
    ELSE IF aArgument = NoArgument /\ "optional" \notin required THEN {"Syntax"}
    ELSE IF aArgument = NoArgument
      THEN {"crash"} \cup { checkArgumentType(required, t) : t \in ArgTypeChoices }
    ELSE {checkArgumentType(required, aArgument)}

\* a function is called: an argument, or the lack of one, is checked
CheckArgument ==
  /\ \E d \in {<<>>} \cup { <<x>> : x \in DescriptorChoices }
                     \cup { <<x, y>> : x, y \in DescriptorChoices },
        aIndex \in 0..2, aArgument \in ArgTypeChoices \cup {NoArgument} :
       \E res \in checkAndSetArgument(d, aIndex, aArgument) :
         argCheck' = [descriptor |-> d, aIndex |-> aIndex, aArgument |-> aArgument,
                      res |-> res, stored |-> res = "OK"]
  /\ UNCHANGED <<fcall, cmp>>
  /\ UNCHANGED contextVars

NextArgs == CheckArgument

SpecArgs == InitValues /\ [][NextArgs]_vars

\* C19: for every list of descriptors, index and argument (or none),
\* checkAndSetArgument() stores the argument and returns OK, or returns
\* Syntax (index beyond the list whose last descriptor is not 'multiple';
\* missing argument that is not optional; type mismatch), or Invalid (type
\* mismatch with 'undefres'); a missing optional argument gives OK; the check
\* never fails abnormally.
C19_ArgumentCheckDefined ==
  argCheck.res # "none" =>
    LET info == argumentInfo(argCheck.descriptor, argCheck.aIndex) IN
      /\ argCheck.res \in {"OK", "Syntax", "Invalid"}
      /\ argCheck.res = "OK" <=> argCheck.stored
      /\ ~info[1] => argCheck.res = "Syntax"
      /\ (info[1] /\ argCheck.aArgument = NoArgument) =>
           argCheck.res = IF "optional" \in info[2] THEN "OK" ELSE "Syntax"
      /\ argCheck.res = "Invalid" => "undefres" \in info[2]

\* ------------------------------------------------------ equality of values
\* a null object of the script engine (a ScriptObj that is no number, no
\* string and no error)
ScriptNull == [kind |-> "null", num |-> 0, str |-> "", domain |-> "", code |-> "OK"]

\* the operands compared: values of expressions, and objects of scripts
ExpressionOperands ==
  { Num(0), Num(42), Str(""), Str("42"), Null,
    Err("ExpressionError", "Syntax"), Err("ExpressionError", "NotFound"),
    Err("ScriptError", "Syntax") }
ScriptOperands ==
  { Num(0), Num(42), Str(""), Str("42"), ScriptNull,
    Err("ScriptError", "Syntax"), Err("ScriptError", "NotFound"),
    Err("ExpressionError", "Syntax") }

\* numValue(): the number itself, the numeric literal in a string, and 0 for
\* everything else
numValue(v) ==
  IF v.kind = "numeric" THEN v.num
  ELSE IF v.kind = "string" /\ v.str = "42" THEN 42
  ELSE 0

\* stringValue(): the string itself, a number formatted with %lg, and the
\* empty string for everything else
stringValue(v) ==
  IF v.kind = "string" THEN v.str
  ELSE IF v.kind = "numeric" THEN (IF v.num = 42 THEN "42" ELSE "0")
  ELSE ""

\* Error::isError(aError, aDomain, aErrorCode)
isError(v, aDomain, aErrorCode) ==
  v.kind = "error" /\ v.code = aErrorCode /\ v.domain = aDomain

\* ExpressionValue::operator==
ExpressionValueEq(a, b) ==
  IF notOk(a) \/ notOk(b)
    THEN isError(b, "ExpressionError", "Null") /\ isError(a, "ExpressionError", "Null")
  ELSE IF a.kind = "string" THEN a.str = stringValue(b)
  ELSE a.num = numValue(b)

\* errorValue(): the error of an error object, an OK error for other objects
errorValue(v) == IF v.kind = "error" THEN <<v.domain, v.code>> ELSE <<"", "OK">>

\* numValue() of a script object: StringValue::numValue gives 42 for every
\* string
scriptNumValue(v) ==
  IF v.kind = "numeric" THEN v.num
  ELSE IF v.kind = "string" THEN 42
  ELSE 0

\* ScriptObj::operator==, NumericValue::operator==, StringValue::operator==
\* and ErrorValue::operator==, chosen by the class of the left operand;
\* same: both operands are one object
ScriptObjEq(a, b, same) ==
  CASE a.kind = "numeric" -> a.num = scriptNumValue(b)
    [] a.kind = "string" -> a.str = stringValue(b)
    [] a.kind = "error" -> errorValue(a) = errorValue(b)
    [] OTHER -> same

\* an expression compares two values
CompareExpressionValues ==
  /\ \E a, b \in ExpressionOperands :
       cmp' = [impl |-> "ExpressionValue", a |-> a, b |-> b,
               eq |-> IF ExpressionValueEq(a, b) THEN "true" ELSE "false"]
  /\ UNCHANGED <<fcall, argCheck>>
  /\ UNCHANGED contextVars

\* a script compares two objects, or an object with itself
CompareScriptObjs ==
  /\ \E a, b \in ScriptOperands, same \in BOOLEAN :
       /\ same => a = b
       /\ cmp' = [impl |-> "ScriptObj", a |-> a, b |-> b,
                  eq |-> IF ScriptObjEq(a, b, same) THEN "true" ELSE "false"]
  /\ UNCHANGED <<fcall, argCheck>>
  /\ UNCHANGED contextVars

NextCompare == CompareExpressionValues \/ CompareScriptObjs

SpecCompare == InitValues /\ [][NextCompare]_vars

\* an error or a null, and a null
ErrorOrNull(v) == v.kind \in {"error", "null"}
NullKind(v) == v = Null \/ v = ScriptNull

\* C20: for all values a and b of which at least one is an error or null,
\* a == b is true exactly when both are of the Null kind; two errors of a
\* non-Null kind never compare equal.
C20_EqualOnlyBothNull ==
  (cmp.eq # "none" /\ (ErrorOrNull(cmp.a) \/ ErrorOrNull(cmp.b))) =>
    (cmp.eq = "true" <=> (NullKind(cmp.a) /\ NullKind(cmp.b)))

\* ------------------------------------------------------ operators on values
\* setBool: a number, 1 for true and 0 for false
Bool(b) == Num(IF b THEN 1 ELSE 0)

\* boolValue(): numValue() is not 0
boolValue(v) == numValue(v) # 0

\* the strings compared, in the order of std::string's operator<
StringOrder == <<"", "0", "42", "abc">>
StrLess(s, t) ==
  \E i, j \in 1..Len(StringOrder) : i < j /\ StringOrder[i] = s /\ StringOrder[j] = t

\* a / b for numbers whose quotient is a whole number (b is not 0)
Quotient(a, b) == IF b > 0 THEN a \div b ELSE (0 - a) \div (0 - b)

\* the operators of ExpressionValue: operator<, operator==, operator!=,
\* operator+, operator-, operator*, operator/, operator&& and operator||
ExpressionValueOp(op, a, b) ==
  CASE op = "<" ->
         IF notOk(a) \/ notOk(b) THEN Bool(FALSE)
         ELSE IF a.kind = "string" THEN Bool(StrLess(a.str, stringValue(b)))
         ELSE Bool(a.num < numValue(b))
    [] op = "==" -> Bool(ExpressionValueEq(a, b))
    [] op = "!=" -> Bool(~ExpressionValueEq(a, b))
    [] op = "+" ->
         IF a.kind = "string" THEN Str(a.str \o stringValue(b))
         ELSE Num(a.num + numValue(b))
    [] op = "-" -> Num(numValue(a) - numValue(b))
    [] op = "*" -> Num(numValue(a) * numValue(b))
    [] op = "/" ->
         IF numValue(b) = 0 THEN Err("ExpressionError", "DivisionByZero")
         ELSE Num(Quotient(numValue(a), numValue(b)))
    [] op = "&" -> Bool(numValue(a) # 0 /\ numValue(b) # 0)
    [] op = "|" -> Bool(numValue(a) # 0 \/ numValue(b) # 0)

\* NumericValue::operator< and StringValue::operator<; ScriptObj::operator<
\* for every other object
ScriptObjLess(a, b) ==
  CASE a.kind = "numeric" -> a.num < scriptNumValue(b)
    [] a.kind = "string" -> StrLess(a.str, stringValue(b))
    [] OTHER -> FALSE

\* the operators of the script objects: operator== and operator< of the
\* class of the left operand, the operators ScriptObj derives from them, and
\* operator+ of NumericValue and StringValue
ScriptObjOp(op, a, b, same) ==
  CASE op = "==" -> Bool(ScriptObjEq(a, b, same))
    [] op = "!=" -> Bool(~ScriptObjEq(a, b, same))
    [] op = "<" -> Bool(ScriptObjLess(a, b))
    [] op = ">=" -> Bool(~ScriptObjLess(a, b))
    [] op = ">" -> Bool(~ScriptObjLess(a, b) /\ ~ScriptObjEq(a, b, same))
    [] op = "<=" -> Bool(ScriptObjEq(a, b, same) \/ ScriptObjLess(a, b))
    [] op = "+" ->
         IF a.kind = "string" THEN Str(a.str \o stringValue(b))
         ELSE Num(a.num + scriptNumValue(b))

\* evaluateExpressionPrivate having the left side res, the operator and the
\* right side: the new res
ApplyBinaryOp(noexec, binaryop, res, rightside) ==
  IF noexec THEN res
  ELSE IF binaryop = "==" THEN Bool(ExpressionValueEq(res, rightside))
  ELSE IF binaryop = "!=" THEN Bool(~ExpressionValueEq(res, rightside))
  ELSE
    LET res1 == IF notOk(rightside) THEN rightside ELSE res IN
      IF notOk(res1) THEN res1
      ELSE CASE binaryop \in {"/", "*", "+", "-", "&", "|"} ->
                  ExpressionValueOp(binaryop, res1, rightside)
             [] binaryop = "<" -> ExpressionValueOp("<", res1, rightside)
             [] binaryop = ">" ->
                  Bool(~boolValue(ExpressionValueOp("<", res1, rightside))
                       /\ ~ExpressionValueEq(res1, rightside))
             [] binaryop = "<=" ->
                  Bool(boolValue(ExpressionValueOp("<", res1, rightside))
                       \/ ExpressionValueEq(res1, rightside))
             [] binaryop = ">=" ->
                  Bool(~boolValue(ExpressionValueOp("<", res1, rightside)))

\* the binary operators evaluateExpressionPrivate applies
BinaryOps == {"*", "/", "+", "-", "==", "!=", "<", ">", "<=", ">=", "&", "|"}

\* an operator of ExpressionValue is applied to two values
ApplyExpressionValueOp ==
  /\ \E op \in {"<", "==", "!=", "+", "-", "*", "/", "&", "|"},
        a, b \in ExpressionOperands :
       binop' = [impl |-> "ExpressionValue", op |-> op, a |-> a, b |-> b, same |-> FALSE,
                 noexec |-> FALSE, res |-> ExpressionValueOp(op, a, b)]
  /\ UNCHANGED <<evalx, cursor, script, objVars>>
  /\ UNCHANGED nonLangVars

\* an operator of the script objects is applied to two objects, or to an
\* object and itself
ApplyScriptObjOp ==
  /\ \E op \in {"==", "!=", "<", ">=", ">", "<=", "+"},
        a, b \in ScriptOperands, same \in BOOLEAN :
       /\ same => a = b
       /\ op = "+" => a.kind \in {"numeric", "string"}
       /\ binop' = [impl |-> "ScriptObj", op |-> op, a |-> a, b |-> b, same |-> same,
                    noexec |-> FALSE, res |-> ScriptObjOp(op, a, b, same)]
  /\ UNCHANGED <<evalx, cursor, script, objVars>>
  /\ UNCHANGED nonLangVars

\* evaluateExpressionPrivate has evaluated both sides of a binary operator
EvaluateBinaryOp ==
  /\ \E op \in BinaryOps, a, b \in ExpressionOperands, noexec \in BOOLEAN :
       binop' = [impl |-> "evaluate", op |-> op, a |-> a, b |-> b, same |-> FALSE,
                 noexec |-> noexec, res |-> ApplyBinaryOp(noexec, op, a, b)]
  /\ UNCHANGED <<evalx, cursor, script, objVars>>
  /\ UNCHANGED nonLangVars

NextOperators == ApplyExpressionValueOp \/ ApplyScriptObjOp \/ EvaluateBinaryOp

SpecOperators == InitValues /\ [][NextOperators]_vars

\* an operator has been applied and not only parsed
Applied == binop.impl # "none" /\ ~binop.noexec

\* C21: every ordering comparison (<, >, <=, >=) in which at least one
\* operand, on either side, is an error or null yields false.
C21_ErrorsUnordered ==
  (/\ Applied
   /\ binop.op \in {"<", ">", "<=", ">="}
   /\ (ErrorOrNull(binop.a) \/ ErrorOrNull(binop.b))) =>
    ~boolValue(binop.res)

\* a number or a string
NumberOrString(v) == v.kind \in {"numeric", "string"}

\* C22: + yields the concatenation of the operands' string representations
\* whenever at least one operand, left or right, is a string, and the numeric
\* sum only when neither operand is a string.
C22_PlusConcatenates ==
  (/\ Applied
   /\ binop.op = "+"
   /\ NumberOrString(binop.a) /\ NumberOrString(binop.b)) =>
    binop.res = IF binop.a.kind = "string" \/ binop.b.kind = "string"
                  THEN Str(stringValue(binop.a) \o stringValue(binop.b))
                  ELSE Num(binop.a.num + binop.b.num)

\* C24: the result of a binary operator other than == and != with at least
\* one error or null operand is the first error in evaluation order: the
\* left operand if it is an error, also when the right one is an error too,
\* and else the right operand; the operands are never combined.
C24_FirstErrorWins ==
  (/\ Applied
   /\ binop.impl = "evaluate"
   /\ binop.op \notin {"==", "!="}
   /\ (notOk(binop.a) \/ notOk(binop.b))) =>
    binop.res = IF notOk(binop.a) THEN binop.a ELSE binop.b

\* --------------------------------------------------------- expressions
\* the text of an expression, as its tokens: a numeric literal, or an
\* operator or parenthesis
Lit(n) == [lit |-> n, sym |-> "literal"]
Sym(c) == [lit |-> 0, sym |-> c]
\* aExpr[aPos]; past the last token there is the end of the text
Tok(aExpr, aPos) == IF aPos <= Len(aExpr) THEN aExpr[aPos] ELSE Sym("")

\* the numeric literals and the operators of the expressions evaluated
Literals == {12, 3, 7}
ExprOps == {"*", "/", "+", "-", "<", "==", "&", "|"}

\* parseOperator: <<the operator, the position after it>>; op_none leaves
\* the position alone
parseOperator(aExpr, aPos) ==
  IF Tok(aExpr, aPos).sym \in BinaryOps \cup {"!"}
    THEN <<Tok(aExpr, aPos).sym, aPos + 1>>
    ELSE <<"none", aPos>>

\* the precedence in the low bits of Operations (as every operator binds)
precedenceEqual(op) == 4

\* binaryop & opmask_precedence
precedence(op) ==
  CASE op \in {"none", "!"} -> 6
    [] op \in {"*", "/"} -> 5
    [] op \in {"+", "-"} -> 4
    [] op \in {"==", "!=", "<", ">", "<=", ">="} -> 3
    [] op \in {"&", "|"} -> 2

syntaxError == Err("ExpressionError", "Syntax")

RECURSIVE evaluateExpressionPrivate(_, _, _, _)
RECURSIVE evaluateOperators(_, _, _, _, _)

\* evaluateExpressionPrivate, the loop over the operators that follow the
\* first term: [res, pos]
evaluateOperators(noexec, aExpr, aPos, res, aPrecedence) ==
  IF aPos > Len(aExpr) THEN [res |-> res, pos |-> aPos]
  ELSE
    LET binaryop == parseOperator(aExpr, aPos)
        opIdx == binaryop[2] IN
      IF \/ Tok(aExpr, opIdx).sym \in {"", ")", ","}
         \/ precedence(binaryop[1]) <= aPrecedence
        THEN [res |-> res, pos |-> aPos]
      ELSE IF binaryop[1] = "none"
        THEN [res |-> syntaxError, pos |-> aPos]
      ELSE
        LET rightside == evaluateExpressionPrivate(noexec, aExpr, opIdx,
                                                   precedence(binaryop[1])) IN
          evaluateOperators(noexec, aExpr, rightside.pos,
                            ApplyBinaryOp(noexec, binaryop[1], res, rightside.res),
                            aPrecedence)

\* evaluateExpressionPrivate: [res, pos]
evaluateExpressionPrivate(noexec, aExpr, aPos, aPrecedence) ==
  LET unaryop == parseOperator(aExpr, aPos)
      p == unaryop[2]
      unary(v) == CASE unaryop[1] = "!" -> Num(IF numValue(v) > 0 THEN 0 ELSE 1)
                    [] unaryop[1] = "-" -> Num(0 - numValue(v))
                    [] OTHER -> v
  IN
    IF unaryop[1] \notin {"none", "-", "!"} THEN [res |-> syntaxError, pos |-> p]
    ELSE IF Tok(aExpr, p).sym = "("
      THEN LET r == evaluateExpressionPrivate(noexec, aExpr, p + 1, 0) IN
             IF r.res = syntaxError THEN r
             ELSE IF Tok(aExpr, r.pos).sym # ")"
               THEN [res |-> syntaxError, pos |-> r.pos]
             ELSE evaluateOperators(noexec, aExpr, r.pos + 1, unary(r.res), aPrecedence)
    ELSE IF Tok(aExpr, p).sym = "literal"
      THEN evaluateOperators(noexec, aExpr, p + 1, unary(Num(Tok(aExpr, p).lit)),
                             aPrecedence)
    ELSE [res |-> syntaxError, pos |-> p]

\* the reference grammar:
\*   level 2:  level3 { (&, |) level3 }       level 3:  level4 { comparison level4 }
\*   level 4:  level5 { (+, -) level5 }       level 5:  primary { ( *, / ) primary }
\*   primary:  literal | "(" level 2 ")"
\* an operator is applied to the values of its operands as the evaluator
\* applies it. [res, pos, whole]; whole: every quotient was a whole number
GrammarLevel(op) ==
  CASE op \in {"&", "|"} -> 2
    [] op \in {"==", "!=", "<", ">", "<=", ">="} -> 3
    [] op \in {"+", "-"} -> 4
    [] op \in {"*", "/"} -> 5
    [] OTHER -> 0

RECURSIVE Grammar(_, _, _)
RECURSIVE GrammarRest(_, _, _, _)

GrammarRest(aExpr, left, aPos, level) ==
  LET op == Tok(aExpr, aPos).sym IN
    IF GrammarLevel(op) # level THEN left
    ELSE
      LET right == Grammar(aExpr, aPos + 1, level + 1)
          quotientWhole ==
            (op = "/" /\ ~notOk(left.res) /\ ~notOk(right.res) /\ right.res.num # 0)
              => Quotient(left.res.num, right.res.num) * right.res.num = left.res.num
      IN GrammarRest(aExpr,
                     [res |-> ApplyBinaryOp(FALSE, op, left.res, right.res),
                      pos |-> right.pos,
                      whole |-> left.whole /\ right.whole /\ quotientWhole],
                     right.pos, level)

Grammar(aExpr, aPos, level) ==
  IF level <= 5
    THEN LET left == Grammar(aExpr, aPos, level + 1) IN
           GrammarRest(aExpr, left, left.pos, level)
  ELSE IF Tok(aExpr, aPos).sym = "("
    THEN LET inner == Grammar(aExpr, aPos + 1, 2) IN
           [inner EXCEPT !.pos = @ + 1]
  ELSE [res |-> Num(Tok(aExpr, aPos).lit), pos |-> aPos + 1, whole |-> TRUE]

\* expressions of n operands without parentheses
RECURSIVE FlatExprs(_)
FlatExprs(n) ==
  IF n = 1 THEN { <<Lit(a)>> : a \in Literals }
  ELSE { e \o <<Sym(o), Lit(a)>> : e \in FlatExprs(n - 1), o \in ExprOps, a \in Literals }

\* the expression e with parentheses around its i-th operator and the two
\* operands next to it
Parenthesized(e, i) ==
  SubSeq(e, 1, 2 * i - 2) \o <<Sym("(")>> \o SubSeq(e, 2 * i - 1, 2 * i + 1)
    \o <<Sym(")")>> \o SubSeq(e, 2 * i + 2, Len(e))

\* the expressions evaluated: up to MaxOperands operands, with at most one
\* pair of parentheses, in which the grammar divides without remainder
\* (the model's numbers are integers)
Expressions ==
  LET flat == UNION { FlatExprs(n) : n \in 1..MaxOperands }
      all == flat \cup UNION { { Parenthesized(e, i) : i \in 1..(Len(e) - 1) \div 2 } :
                                e \in flat }
  IN { e \in all : Grammar(e, 1, 2).whole }

\* an expression is evaluated
EvaluateExpression ==
  /\ evalx.aExpr = <<>>
  /\ \E aExpr \in Expressions, noexec \in BOOLEAN :
       evalx' = [aExpr |-> aExpr, noexec |-> noexec,
                 res |-> evaluateExpressionPrivate(noexec, aExpr, 1, 0).res]
  /\ UNCHANGED <<binop, cursor, script, objVars>>
  /\ UNCHANGED nonLangVars

\* the result has been taken
ExpressionResultTaken ==
  /\ evalx.aExpr # <<>>
  /\ evalx' = [aExpr |-> <<>>, noexec |-> FALSE, res |-> Null]
  /\ UNCHANGED <<binop, cursor, script, objVars>>
  /\ UNCHANGED nonLangVars

NextExpressions == EvaluateExpression \/ ExpressionResultTaken

SpecExpressions == InitValues /\ [][NextExpressions]_vars

\* C23: the result of evaluating an expression built from numeric literals,
\* parentheses and binary operators is that of the reference grammar:
\* * and / bind tighter than + and -, these bind tighter than the
\* comparisons, these bind tighter than & and |, and operators of the same
\* precedence associate from left to right.
C23_PrecedenceAsGrammar ==
  (evalx.aExpr # <<>> /\ ~evalx.noexec) =>
    evalx.res = Grammar(evalx.aExpr, 1, 2).res

\* C23, reachability: 12/3-7 has been evaluated to -3
C23_Witness ==
  /\ evalx.aExpr = <<Lit(12), Sym("/"), Lit(3), Sym("-"), Lit(7)>>
  /\ ~evalx.noexec
  /\ evalx.res = Num(0 - 3)

\* ------------------------------------------------------------ source text
\* the characters of the source texts: space, line feed, slash, asterisk
\* and a character of code
Chars == {" ", "\n", "/", "*", "x"}
Whitespace == {" ", "\t", "\n", "\r"}

\* CodeCursor::c: the character aOffset after the cursor, 0 (here "") at the
\* end of the text; positions count from 1, the end of a text is Len + 1
c(text, pos, aOffset) == IF pos + aOffset <= Len(text) THEN text[pos + aOffset] ELSE ""

\* while (c() && c() is not in Stop) next(): the position reached
Scan(text, pos, Stop) ==
  CHOOSE q \in pos..Len(text) + 1 :
    /\ q = Len(text) + 1 \/ text[q] \in Stop
    /\ \A r \in pos..q - 1 : text[r] \notin Stop

\* CodeCursor::advance: not past the end of the text
advance(text, pos, aNumChars) ==
  IF pos + aNumChars <= Len(text) + 1 THEN pos + aNumChars ELSE Len(text) + 1

\* CodeCursor::skipNonCode: the position of the cursor afterwards
RECURSIVE skipNonCode(_, _)
skipNonCode(text, pos) ==
  LET p == Scan(text, pos, Chars \ Whitespace) IN
    IF c(text, p, 0) = "/" /\ c(text, p, 1) = "/"
      THEN skipNonCode(text, Scan(text, advance(text, p, 2), {"\n", "\r"}))
    ELSE IF c(text, p, 0) = "/" /\ c(text, p, 1) = "*"
      THEN LET q == Scan(text, advance(text, p, 2), {"*"}) IN
             skipNonCode(text, IF c(text, q, 1) = "/" THEN advance(text, q, 2) ELSE q)
    ELSE p

\* the texts given to the cursor
RECURSIVE Texts(_)
Texts(n) ==
  IF n = 0 THEN {<<>>}
  ELSE Texts(n - 1) \cup { Append(t, ch) : t \in Texts(n - 1), ch \in Chars }

\* a cursor is put at the start of a text and skipNonCode() is called
SkipNonCode ==
  /\ cursor.pos = 0
  /\ \E text \in Texts(MaxText) :
       cursor' = [text |-> text, pos |-> skipNonCode(text, 1)]
  /\ UNCHANGED <<binop, evalx, script, objVars>>
  /\ UNCHANGED nonLangVars

\* the cursor is released
CursorReleased ==
  /\ cursor.pos # 0
  /\ cursor' = [text |-> <<>>, pos |-> 0]
  /\ UNCHANGED <<binop, evalx, script, objVars>>
  /\ UNCHANGED nonLangVars

NextCursor == SkipNonCode \/ CursorReleased

SpecCursor == InitValues /\ [][NextCursor]_vars

\* the position of the first character from pos on that is neither
\* whitespace nor part of a comment: a // comment lasts to the end of the
\* line, a /* comment to the first */ after its opening, or to the end of the
\* text if there is none
RECURSIVE FirstCode(_, _)
FirstCode(text, pos) ==
  IF pos > Len(text) THEN Len(text) + 1
  ELSE IF text[pos] \in Whitespace THEN FirstCode(text, pos + 1)
  ELSE IF c(text, pos, 0) = "/" /\ c(text, pos, 1) = "/"
    THEN FirstCode(text, Scan(text, pos + 2, {"\n", "\r"}))
  ELSE IF c(text, pos, 0) = "/" /\ c(text, pos, 1) = "*"
    THEN LET ends == { q \in pos + 2..Len(text) - 1 : text[q] = "*" /\ text[q + 1] = "/" } IN
           IF ends = {} THEN Len(text) + 1
           ELSE FirstCode(text, 2 + CHOOSE q \in ends : \A r \in ends : q <= r)
  ELSE pos

\* C25: after skipNonCode() the cursor stands at the first character that is
\* neither whitespace nor part of a // comment nor part of a /*...*/ comment,
\* for every text, also when the body of a comment contains '*' characters
\* or the comment is not terminated.
C25_CursorAtCode ==
  cursor.pos # 0 => cursor.pos = FirstCode(cursor.text, 1)

\* ------------------------------------------------- statements of a script
\* the statements of the scripts run: an assignment to the variable a, the
\* call of a function, return with and without a value, and if with and
\* without else, whose branches are statements again
Statement(k, val, cond, then, else) ==
  [k |-> k, val |-> val, cond |-> cond, then |-> then, else |-> else]
Simple ==
  { Statement("assign", Num(1), FALSE, <<>>, <<>>),
    Statement("call", Null, FALSE, <<>>, <<>>),
    Statement("return", Num(7), FALSE, <<>>, <<>>),
    Statement("return", Num(9), FALSE, <<>>, <<>>),
    Statement("returnNothing", Null, FALSE, <<>>, <<>>) }
\* if (cond) s, if (cond) s else t, and if (cond) s else if (cond2) a=2 [else a=3]
IfStatements ==
  LET plain == { Statement(k, Null, cond, <<st>>, <<>>) :
                   k \in {"if"}, cond \in BOOLEAN, st \in Simple }
      withElse == { Statement("ifElse", Null, cond, <<st>>, <<el>>) :
                      cond \in BOOLEAN, st, el \in Simple }
      inner == { Statement("if", Null, cond, <<Statement("assign", Num(2), FALSE, <<>>, <<>>)>>, <<>>) :
                   cond \in BOOLEAN }
               \cup
               { Statement("ifElse", Null, cond,
                           <<Statement("assign", Num(2), FALSE, <<>>, <<>>)>>,
                           <<Statement("assign", Num(3), FALSE, <<>>, <<>>)>>) :
                   cond \in BOOLEAN }
      chain == { Statement("ifElse", Null, cond,
                           <<Statement("assign", Num(1), FALSE, <<>>, <<>>)>>, <<i>>) :
                   cond \in BOOLEAN, i \in inner }
  IN plain \cup withElse \cup chain

\* the scripts run: up to n statements
RECURSIVE Scripts(_)
Scripts(n) ==
  IF n = 0 THEN {<<>>}
  ELSE Scripts(n - 1) \cup
       { Append(sc, st) : sc \in Scripts(n - 1), st \in Simple \cup IfStatements }

\* a stack frame: the statements it still has to process and its skipping flag
StackFrame(todo, aSkip) == [todo |-> todo, skipping |-> aSkip]

\* push() that does not inherit the skipping flag (a variant of the code)
pushSkippingNotInherited(current, aStartSkipping) == aStartSkipping

\* push(): the skipping flag of the new frame is set if aStartSkipping is
\* set, and inherited from the current frame otherwise
pushSkipping(current, aStartSkipping) == aStartSkipping \/ current

\* return that goes on with the next statement (a variant of the code)
returnStackContinue(frames) == frames

\* return: the whole script ends, no frame is left
returnStack(frames) == <<>>

\* execute(): a script is set and started at the body level, with the
\* variable a declared
RunScript ==
  /\ script.state = "idle"
  /\ \E code \in Scripts(MaxStatements) :
       script' = [script EXCEPT !.state = "running", !.code = code,
                                !.stack = <<StackFrame(code, FALSE)>>]
  /\ UNCHANGED <<binop, evalx, cursor, objVars>>
  /\ UNCHANGED nonLangVars

\* resumeStatements / resumeIfElse: the current frame processes its next
\* statement, or is popped when it has none left; the body level popped
\* completes the script with the value of the last expression
StatementStep ==
  /\ script.state = "running"
  /\ LET sp == Len(script.stack)
         frame == script.stack[sp]
         below == SubSeq(script.stack, 1, sp - 1)
     IN
       IF sp = 0
         THEN script' = [script EXCEPT !.state = "complete"]
       ELSE IF frame.todo = <<>>
         THEN script' = [script EXCEPT
                !.stack = below,
                !.finalResult = IF sp = 1 THEN script.res ELSE @]
       ELSE
         LET st == Head(frame.todo)
             rest == Append(below, StackFrame(Tail(frame.todo), frame.skipping))
         IN
           CASE st.k \in {"if", "ifElse"} ->
                  script' = [script EXCEPT
                    !.stack = rest \o
                      << StackFrame(st.else, pushSkipping(frame.skipping, st.cond)),
                         StackFrame(st.then, pushSkipping(frame.skipping, ~st.cond)) >>]
             [] st.k \notin {"if", "ifElse"} /\ frame.skipping ->
                  script' = [script EXCEPT !.stack = rest]
             [] st.k = "assign" /\ ~frame.skipping ->
                  script' = [script EXCEPT
                    !.stack = rest, !.variables = st.val, !.res = st.val,
                    !.executed = Append(@, st)]
             [] st.k = "call" /\ ~frame.skipping ->
                  script' = [script EXCEPT
                    !.stack = rest, !.calls = @ + 1, !.executed = Append(@, st)]
             [] st.k \in {"return", "returnNothing"} /\ ~frame.skipping ->
                  script' = [script EXCEPT
                    !.stack = returnStack(rest),
                    !.res = st.val, !.finalResult = st.val,
                    !.executed = Append(@, st), !.returns = Append(@, st.val)]
  /\ UNCHANGED <<binop, evalx, cursor, objVars>>
  /\ UNCHANGED nonLangVars

\* the result of the script has been delivered
ScriptResultTaken ==
  /\ script.state = "complete"
  /\ script' = [state |-> "idle", code |-> <<>>, stack |-> <<>>, variables |-> Null,
                calls |-> 0, res |-> Null, finalResult |-> Null,
                executed |-> <<>>, returns |-> <<>>]
  /\ UNCHANGED <<binop, evalx, cursor, objVars>>
  /\ UNCHANGED nonLangVars

NextScript == RunScript \/ StatementStep \/ ScriptResultTaken

SpecScript == InitValues /\ [][NextScript]_vars

\* C26: the first return statement processed ends the script with its value
\* (Null when it has no expression): no statement after it is executed and
\* no later return overrides the result.
C26_FirstReturnEnds ==
  /\ Len(script.returns) <= 1
  /\ script.returns # <<>> =>
       /\ script.stack = <<>>
       /\ script.finalResult = script.returns[1]
       /\ script.executed[Len(script.executed)].k \in {"return", "returnNothing"}

\* C26, reachability: the script "return 7; return 9" has completed with 7
C26_Witness ==
  /\ script.state = "complete"
  /\ script.code = << Statement("return", Num(7), FALSE, <<>>, <<>>),
                      Statement("return", Num(9), FALSE, <<>>, <<>>) >>
  /\ script.finalResult = Num(7)

\* what the statements sts assign and call when each if takes the branch its
\* condition selects and a return ends everything: [variables, calls, ended]
RECURSIVE Effect(_, _)
Effect(sts, before) ==
  IF sts = <<>> \/ before.ended THEN before
  ELSE
    LET st == Head(sts)
        after ==
          CASE st.k = "assign" -> [before EXCEPT !.variables = st.val]
            [] st.k = "call" -> [before EXCEPT !.calls = @ + 1]
            [] st.k \in {"return", "returnNothing"} -> [before EXCEPT !.ended = TRUE]
            [] st.k \in {"if", "ifElse"} ->
                 Effect(IF st.cond THEN st.then ELSE st.else, before)
    IN Effect(Tail(sts), after)

\* the current frame is skipping
Skipping == script.stack # <<>> /\ script.stack[Len(script.stack)].skipping

\* C27: code in a branch of if/else that is not taken is parsed without
\* effect: while the skipping flag of the current frame is set no variable
\* is assigned and no function is executed; of every if/else (also in else-if
\* chains) exactly the branch the condition selects takes effect, none if
\* there is no else and the condition is false; and execution continues
\* normally after the statement.
C27_SkippedBranchNoEffect ==
  /\ [](script.state = "complete" =>
          LET e == Effect(script.code, [variables |-> Null, calls |-> 0, ended |-> FALSE])
          IN script.variables = e.variables /\ script.calls = e.calls)
  /\ [][Skipping => (script'.variables = script.variables
                     /\ script'.calls = script.calls
                     /\ script'.executed = script.executed)]_vars

\* C27, reachability: if (true) a=1 else if (false) a=2 else a=3; call()
\* has completed with a = 1 and one call
C27_Witness ==
  /\ script.state = "complete"
  /\ script.code =
       << Statement("ifElse", Null, TRUE,
            <<Statement("assign", Num(1), FALSE, <<>>, <<>>)>>,
            <<Statement("ifElse", Null, FALSE,
                <<Statement("assign", Num(2), FALSE, <<>>, <<>>)>>,
                <<Statement("assign", Num(3), FALSE, <<>>, <<>>)>>)>>),
          Statement("call", Null, FALSE, <<>>, <<>>) >>
  /\ script.variables = Num(1)
  /\ script.calls = 1

\* ======================================================================
\* ScriptSource (scripting.cpp)
\* ======================================================================

\* what the operations on a ScriptSource leave alone
langOnly == <<binop, evalx, cursor, script, members, builtin>>

\* source texts; "" is the empty text, and as ScriptSource::source the null
\* pointer (a SourceContainer is created for a text that is not empty only)
SourceTexts == {"", "a", "b", "c", "d"}

\* the compiler contexts a host assigns; "none" is the null pointer,
\* "domain" StandardScriptingDomain::sharedDomain()
CompilerContexts == {"none", "main", "domain"}

\* ExecutionContext::compile: a StringValue that echoes the source
compile(aSource) == <<"echoing input", aSource>>

\* ScriptSource::setCompilerContext
SetCompilerContext ==
  /\ \E aCompilerContext \in CompilerContexts :
       scriptSource' = [scriptSource EXCEPT !.compilerContext = aCompilerContext,
                                            !.op = "setCompilerContext", !.res = <<>>]
  /\ UNCHANGED <<nonLangVars, langOnly>>

\* ScriptSource::setSource: the source after it.  The compiler stores no
\* object in its context, so releaseObjsFromSource() finds none to release.
setSource(src, aSource) ==
  LET released == IF src.source # "" /\ src.compilerContext # "none" THEN "" ELSE src.source IN
    IF aSource # "" THEN aSource ELSE released

\* ScriptSource::setSource (given: the text of the call; compiled: the calls
\* of compile() since)
SetSource ==
  /\ \E aSource \in SourceTexts :
       scriptSource' = [scriptSource EXCEPT !.cachedExecutable = <<>>,
                                            !.source = setSource(scriptSource, aSource),
                                            !.given = aSource, !.compiled = 0,
                                            !.op = "setSource", !.res = <<>>]
  /\ UNCHANGED <<nonLangVars, langOnly>>

\* ScriptSource::getExecutable: the ScriptSource after it, res what it returns
getExecutable(src) ==
  IF src.source # "" /\ src.cachedExecutable = <<>>
    THEN [src EXCEPT !.compilerContext = IF @ = "none" THEN "domain" ELSE @,
                     !.cachedExecutable = compile(src.source),
                     !.compiled = @ + 1,
                     !.res = compile(src.source)]
    ELSE [src EXCEPT !.res = src.cachedExecutable]

\* the host calls getExecutable()
GetExecutable ==
  /\ scriptSource' = [getExecutable(scriptSource) EXCEPT !.op = "getExecutable"]
  /\ UNCHANGED <<nonLangVars, langOnly>>

\* ScriptSource::run: what compile() returns is not executable, so the
\* callback gets the object itself (res: what the callback is called with)
RunSource ==
  /\ scriptSource' = [getExecutable(scriptSource) EXCEPT !.op = "run"]
  /\ UNCHANGED <<nonLangVars, langOnly>>

NextSource ==
  \/ SetCompilerContext
  \/ SetSource
  \/ GetExecutable
  \/ RunSource

SpecSource == InitValues /\ [][NextSource]_vars

\* C32: what getExecutable() returns is compiled from the text of the last
\* setSource(), by at most one compilation since that call; after
\* setSource() with an empty text it is no executable, whether or not a
\* compiler context is assigned.
C32_ExecutableOfCurrentSource ==
  scriptSource.op \in {"getExecutable", "run"} =>
    /\ scriptSource.res = IF scriptSource.given = "" THEN <<>>
                          ELSE compile(scriptSource.given)
    /\ scriptSource.compiled <= 1

\* ======================================================================
\* The variables of a context and evaluate() (scripting.cpp)
\* ======================================================================

\* flag words the host passes to evaluate(), with and without keepvars
VarFlagChoices ==
  { {}, {"keepvars"}, {"queue"}, {"queue", "keepvars"}, {"stoprunning"}, {"concurrently"},
    {"synchronously"} }

\* The host calls ScriptCodeContext::evaluate()
HostEvaluateVars ==
  /\ HostRuns
  /\ nextId <= MaxThreads
  /\ \E fl \in VarFlagChoices :
       HostCall(Frame("evaluate", nextId, "Code", fl))
  /\ nextId' = nextId + 1
  /\ UNCHANGED <<threads, queuedThreads, th, child, now, crashed, delivered, timing, nested>>
  /\ UNCHANGED otherVars

\* The script of the running thread declares a local variable in its step:
\* setMemberByName() of the context with the create attribute and a number
ScriptAssigns ==
  /\ At("step", "entry")
  /\ \E n \in Names :
       /\ namedVars' = SetMemberByName(namedVars, n, Obj("local", {"numeric"}), TRUE)
       /\ namedVars' # namedVars
  /\ UNCHANGED <<mainVars, globalVars, thisVars, lookups, asked, found, setRes>>
  /\ UNCHANGED <<threadVars, triggerVars, timedVars, valueVars>>

\* the engine, its clock standing still, with a host that evaluates with
\* and without keepvars, and scripts that assign variables
NextVars ==
  \/ Destroy
  \/ HostAbort
  \/ HostReturn
  \/ Evaluate
  \/ EvaluateStart
  \/ CtxAbort
  \/ CtxAbortPopQueued
  \/ CtxAbortPopRunning
  \/ CtxAbortPopEmpty
  \/ ThreadTerminated
  \/ ThreadTerminatedErasedNode
  \/ ThreadAbort
  \/ ThreadRun
  \/ ThreadResume
  \/ ThreadResumeLoop
  \/ ThreadResumeTest
  \/ ThreadStepError
  \/ ThreadStepDummy
  \/ ThreadStepFunctionExec
  \/ ThreadChildDone
  \/ ThreadEnd
  \/ ThreadEndNotify
  \/ BuiltinEvaluate
  \/ BuiltinImplementation
  \/ delay_func
  \/ BuiltinFinish
  \/ BuiltinCallbackDone
  \/ BuiltinAbortDangling
  \/ BuiltinAbort
  \/ HostEvaluateVars
  \/ ScriptAssigns

SpecVars == Init /\ [][NextVars]_vars

\* a step that is evaluate() up to its decision about the new thread
EvaluateStep == At("evaluate", "entry") /\ stack' # stack

\* C37: an evaluate() that is rejected as Busy or only queued leaves the
\* variables of the context as they are; the variables are cleared, when
\* keepvars is not set, only by an evaluate() that starts its thread.
C37_VariablesKept ==
  [][EvaluateStep =>
       LET mode == EvaluateMode(threads, Top.flags) IN
         /\ mode \in {"busy", "queue"} => namedVars' = namedVars
         /\ "keepvars" \in Top.flags => namedVars' = namedVars
         /\ (mode \in {"start", "stop"} /\ "keepvars" \notin Top.flags) =>
              namedVars' = NoVars]_vars


\* ======================================================================
\* The indexed members of an ExecutionContext (scripting.cpp)
\* ======================================================================

\* the longest indexedVars
MaxMembers == 3

\* what the accesses to the indexed members leave alone
membersRest == <<binop, evalx, cursor, script, scriptSource, builtin>>

\* the objects stored as members; the type info of a value is its kind
MemberChoices == {Num(1), Str("a")}
\* the type requirements asked for: none, numeric, text
RequirementChoices == { {}, {"numeric"}, {"string"} }

\* ExecutionContext::setMemberAtIndex: indexedVars after it; resize() fills
\* the new elements with pointers to no object
setMemberAtIndex(indexedVars, aIndex, aMember) ==
  IF aIndex = Len(indexedVars) THEN Append(indexedVars, aMember)
  ELSE LET resized == IF aIndex > Len(indexedVars)
                        THEN indexedVars \o [ k \in 1..(aIndex + 1 - Len(indexedVars)) |-> NullPtr ]
                        ELSE indexedVars IN
         [resized EXCEPT ![aIndex + 1] = aMember]

\* ExecutionContext::memberAtIndex: the outcomes of the call.  The element is
\* read into a second v declared in the block of the if, which hides the v
\* that is returned; for an element that points to no object
\* v->getTypeInfo() is undefined: the process dies, or whatever is read
\* meets the requirements or not.
memberAtIndex(indexedVars, aIndex, aTypeRequirements) ==
  LET v == NullPtr IN
    IF aIndex < Len(indexedVars)
      THEN LET inner == indexedVars[aIndex + 1] IN
             IF inner = NullPtr
               THEN { [res |-> NullPtr, crashed |-> TRUE], [res |-> v, crashed |-> FALSE] }
             ELSE IF ~(aTypeRequirements \subseteq {inner.kind})
               THEN { [res |-> NullPtr, crashed |-> FALSE] }
             ELSE { [res |-> v, crashed |-> FALSE] }
      ELSE { [res |-> v, crashed |-> FALSE] }

\* BuiltinFunctionContext::arg: the outcomes of the call
arg(indexedVars, aArgIndex) ==
  IF aArgIndex < 0 \/ aArgIndex > Len(indexedVars)
    THEN { [res |-> ScriptObj, crashed |-> FALSE] }
    ELSE memberAtIndex(indexedVars, aArgIndex, {})

\* a member is stored at an index
SetMemberAtIndex ==
  /\ ~members.crashed
  /\ \E aIndex \in 0..(MaxMembers - 1), aMember \in MemberChoices :
       members' = [members EXCEPT !.indexedVars = setMemberAtIndex(@, aIndex, aMember),
                                  !.op = "setMemberAtIndex", !.aIndex = aIndex,
                                  !.aMember = aMember, !.aTypeRequirements = {},
                                  !.res = NullPtr]
  /\ UNCHANGED <<nonLangVars, membersRest>>

\* the member at an index is read
MemberAtIndex ==
  /\ ~members.crashed
  /\ \E aIndex \in 0..MaxMembers, aTypeRequirements \in RequirementChoices :
       \E r \in memberAtIndex(members.indexedVars, aIndex, aTypeRequirements) :
         members' = [members EXCEPT !.op = "memberAtIndex", !.aIndex = aIndex,
                                    !.aMember = NullPtr,
                                    !.aTypeRequirements = aTypeRequirements,
                                    !.res = r.res, !.crashed = r.crashed]
  /\ UNCHANGED <<nonLangVars, membersRest>>

\* a function reads an argument of its context
Arg ==
  /\ ~members.crashed
  /\ \E aArgIndex \in 0..MaxMembers :
       \E r \in arg(members.indexedVars, aArgIndex) :
         members' = [members EXCEPT !.op = "arg", !.aIndex = aArgIndex,
                                    !.aMember = NullPtr, !.aTypeRequirements = {},
                                    !.res = r.res, !.crashed = r.crashed]
  /\ UNCHANGED <<nonLangVars, membersRest>>

NextMembers ==
  \/ SetMemberAtIndex
  \/ MemberAtIndex
  \/ Arg

SpecMembers == InitValues /\ [][NextMembers]_vars

\* the element at aIndex is an object that meets the type requirements
Stored(aIndex, aTypeRequirements) ==
  /\ aIndex < Len(members.indexedVars)
  /\ members.indexedVars[aIndex + 1] # NullPtr
  /\ aTypeRequirements \subseteq {members.indexedVars[aIndex + 1].kind}

\* C40: memberAtIndex(i) returns the object last stored at i when it meets
\* the type requirements, and a null pointer only when i is out of range or
\* the requirements are not met; arg(i) never returns a null pointer: it
\* returns the argument, or a dummy object without value for an index that
\* has no argument, the number of arguments included.
C40_MemberAtIndex ==
  /\ (members.op = "memberAtIndex" /\ ~members.crashed) =>
       members.res = IF Stored(members.aIndex, members.aTypeRequirements)
                       THEN members.indexedVars[members.aIndex + 1]
                       ELSE NullPtr
  /\ (members.op = "arg" /\ ~members.crashed) =>
       /\ members.res # NullPtr
       /\ members.aIndex >= Len(members.indexedVars) => members.res = ScriptObj


\* ======================================================================
\* The standard functions (scripting.cpp, namespace BuiltinFunctions)
\* ======================================================================

\* what a call of a standard function leaves alone
builtinRest == <<binop, evalx, cursor, script, scriptSource, members>>

\* standard functions that are not flagged async
StandardFuncs == {"abs", "min", "max", "limited", "epochtime", "errordomain", "errorcode"}

\* the argument descriptors of a function; value is numeric+text
descriptors(func) ==
  CASE func = "abs" -> << {"numeric", "text", "undefres"} >>
    [] func \in {"min", "max"} ->
         << {"numeric", "text", "undefres"}, {"numeric", "text", "undefres"} >>
    [] func = "limited" -> << {"numeric", "text", "undefres"}, {"numeric"}, {"numeric"} >>
    [] func \in {"errordomain", "errorcode"} -> << {"error", "undefres"} >>
    [] OTHER -> << >>

\* the values passed to a function: numbers, and for the functions on
\* errors a number or an error
FuncArgValues(func) ==
  IF func \in {"errordomain", "errorcode"}
    THEN {Num(1), Err("ScriptError", "User"), Err("ScriptError", "Syntax")}
    ELSE {Num(0), Num(1), Num(2)}

\* the process has died reading through a pointer to no object
Crash == [kind |-> "crash", num |-> 0, str |-> "", domain |-> "", code |-> "OK"]

\* f->arg(i) without use of the object: the pointers the function can get
argPtr(indexedVars, i) ==
  { IF r.crashed THEN Crash ELSE r.res : r \in arg(indexedVars, i) }

\* f->arg(i)->..., f->argval(i): the objects the function can read.  Through
\* a pointer to no object the read is undefined: the process dies, or the
\* function goes on with whatever it reads (garbage: the values that can be).
argval(indexedVars, i, garbage) ==
  UNION { IF p = NullPtr THEN {Crash} \cup garbage ELSE {p} : p \in argPtr(indexedVars, i) }

\* NumericValue::operator< and ScriptObj::operator> of two numbers
Less(a, b) == a.num < b.num
Greater(a, b) == ~Less(a, b) /\ ~(a.num = b.num)

\* a run of an implementation: its calls of finish() in order, and whether
\* the process died in it
Run(fs, died) == [finishes |-> fs, crashed |-> died]

\* AnnotatedNullValue: a value that is null, with a text
AnnotatedNullValue(t) == [ScriptObj EXCEPT !.str = t]

\* abs_func
abs_func(iv, g) ==
  { IF a = Crash THEN Run(<<>>, TRUE) ELSE Run(<<Num(a.num)>>, FALSE) : a \in argval(iv, 0, g) }

\* min_func
min_func(iv, g) ==
  { IF Crash \in {a, b} THEN Run(<<>>, TRUE)
    ELSE IF Less(a, b) THEN Run(<<p0>>, FALSE) ELSE Run(<<p1>>, FALSE) :
      a \in argval(iv, 0, g), b \in argval(iv, 1, g),
      p0 \in argPtr(iv, 0), p1 \in argPtr(iv, 1) }

\* max_func
max_func(iv, g) ==
  { IF Crash \in {a, b} THEN Run(<<>>, TRUE)
    ELSE IF Greater(a, b) THEN Run(<<p0>>, FALSE) ELSE Run(<<p1>>, FALSE) :
      a \in argval(iv, 0, g), b \in argval(iv, 1, g),
      p0 \in argPtr(iv, 0), p1 \in argPtr(iv, 1) }

\* limited_func: no finish() for a value inside the limits
limited_func(iv, g) ==
  { IF Crash \in {a, b} THEN Run(<<>>, TRUE)
    ELSE IF Less(a, b) THEN Run(<<p1>>, FALSE)
    ELSE IF hi = Crash THEN Run(<<>>, TRUE)
    ELSE IF Greater(a, hi) THEN Run(<<p2>>, FALSE)
    ELSE Run(<<>>, FALSE) :
      a \in argval(iv, 0, g), b \in argval(iv, 1, g), hi \in argval(iv, 2, g),
      p1 \in argPtr(iv, 1), p2 \in argPtr(iv, 2) }

\* epochtime_func
epochtime_func == { Run(<<Num(MaxTime)>>, FALSE) }

\* the result of errordomain() and of errorcode() for an error: the domain
\* as a text, the code as a number (kept by its name)
errorinfo_res(e, field) ==
  IF field = "domain" THEN Str(e.domain) ELSE [Num(0) EXCEPT !.code = e.code]

\* errordomain_func and errorcode_func: finish() for "no error" is not
\* followed by a return, so the second finish() is reached with err pointing
\* to no error: reading its domain or code is undefined (the process dies,
\* or finish() is called with whatever is read).  field: what is asked for.
errorinfo(iv, g, field) ==
  UNION { IF a = Crash THEN { Run(<<>>, TRUE) }
          ELSE IF a.kind # "error"
            THEN { Run(<<AnnotatedNullValue("no error")>>, TRUE) }
                 \cup { Run(<<AnnotatedNullValue("no error"), errorinfo_res(e, field)>>, FALSE) :
                          e \in { x \in g : x.kind = "error" } }
          ELSE { Run(<<errorinfo_res(a, field)>>, FALSE) } :
      a \in argval(iv, 0, g) }

\* errordomain_func, errorcode_func
errordomain_func(iv, g) == errorinfo(iv, g, "domain")
errorcode_func(iv, g) == errorinfo(iv, g, "code")

\* func->descriptor->implementation(this): the runs it can take
implementation(func, iv) ==
  LET g == FuncArgValues(func) IN
    CASE func = "abs" -> abs_func(iv, g)
      [] func = "min" -> min_func(iv, g)
      [] func = "max" -> max_func(iv, g)
      [] func = "limited" -> limited_func(iv, g)
      [] func = "errordomain" -> errordomain_func(iv, g)
      [] func = "errorcode" -> errorcode_func(iv, g)
      [] OTHER -> epochtime_func

\* the type info of an argument value
argInfo(v) == IF v.kind = "error" THEN {"error"} ELSE {"numeric"}

\* the arguments are checked and stored one by one: indexedVars after it,
\* for arguments that all pass ExecutionContext::checkAndSetArgument
RECURSIVE setArguments(_, _, _)
setArguments(func, given, iv) ==
  IF given = <<>> THEN iv
  ELSE setArguments(func, Tail(given), setMemberAtIndex(iv, Len(iv), Head(given)))

ArgumentsPass(func, given) ==
  \A i \in 1..Len(given) :
    checkAndSetArgument(descriptors(func), i - 1, argInfo(given[i])) = {"OK"}

\* a script calls a standard function with arguments that pass the check;
\* BuiltinFunctionContext::evaluate stores the callback of the caller
BuiltinCall ==
  /\ builtin.pc \in {"idle", "returned"}
  /\ \E func \in StandardFuncs :
       \E given \in [ 1..Len(descriptors(func)) -> FuncArgValues(func) ] :
         /\ ArgumentsPass(func, given)
         /\ builtin' = [func |-> func, indexedVars |-> setArguments(func, given, <<>>),
                        evaluationCB |-> TRUE, pc |-> "implementation",
                        finished |-> 0, results |-> <<>>, outcome |-> "none"]
  /\ UNCHANGED <<nonLangVars, builtinRest>>

\* BuiltinFunctionContext::finish, called n times in a row: the callback
\* runs and is cleared; calling the cleared callback throws
finish(b, run) ==
  LET n == Len(run.finishes) IN
    [b EXCEPT !.finished = n,
              !.results = IF n = 0 THEN <<>> ELSE <<run.finishes[1]>>,
              !.evaluationCB = IF n = 0 THEN @ ELSE FALSE,
              !.outcome = IF n > 1 THEN "threw"
                          ELSE IF run.crashed THEN "crashed" ELSE "returned",
              !.pc = IF n > 1 \/ run.crashed THEN "dead" ELSE "returned"]

\* the implementation of the function runs to its end
BuiltinRun ==
  /\ builtin.pc = "implementation"
  /\ \E run \in implementation(builtin.func, builtin.indexedVars) :
       builtin' = finish(builtin, run)
  /\ UNCHANGED <<nonLangVars, builtinRest>>

NextBuiltin ==
  \/ BuiltinCall
  \/ BuiltinRun

SpecBuiltin == InitValues /\ [][NextBuiltin]_vars

\* C38: a standard function that is not async has called finish() exactly
\* once when its implementation is through, so the callback of the caller
\* has run exactly once.
C38_FinishOnce ==
  (builtin.func # "none" /\ builtin.pc # "implementation") =>
    /\ builtin.finished = 1
    /\ Len(builtin.results) = 1
    /\ builtin.outcome = "returned"

====
